---- MODULE Spec2Model ----
(***************************************************************************)
(* Model of the rcam multi-camera acquisition tool: process setup (main),  *)
(* the capture-image / capture-video / verify-times / test handlers and    *)
(* the batch engine of CameraMediaManager (parallel stream initialisation, *)
(* shutter barrier, blocking per-device workers, result aggregation).      *)
(***************************************************************************)
EXTENDS Integers, Sequences, FiniteSets, TLC

\* ---------------------------------------------------------------- bounds
MaxSel == 2          \* longest --cameras list / cameras_info slice
MaxClock == 1        \* host clock readings are 0..MaxClock (formatted seconds)
MaxThreads == 2      \* tokio runtime worker threads are 1..MaxThreads
MaxFrames == 1       \* round(duration * fps) is 0..MaxFrames
MaxLoopFrames == 6   \* the same, for the runs that study the frame loop
MaxTime == 8         \* camera clocks answer with a second in 0..MaxTime
MaxTolerance == 5    \* configured tolerances go up to MaxTolerance + 1/2 s
MaxBody == 2         \* a response body has at most MaxBody bytes

\* The device names of the configurations considered (spec.md, scenario 4).
Devices == {"cam_a", "cam_b"}

VARIABLES
    pc,               \* position of the coordinator (main / handler / media manager)
    cmd,              \* subcommand dispatched by main, or "lib-capture-image"
    cameras,          \* CameraManager.cameras: the registered names
    password,         \* CameraEntity.password is Some, per device
    camera_entities,  \* targets returned by determine_target_cameras
    excluded,         \* devices dropped with a per-device credential error
    cameras_info,     \* (name, url) list handed to the media manager
    init_results,     \* per cameras_info entry: "pending" | "opening" | "ok" | "err"
    captures,         \* CameraMediaManager.captures: names with an opened stream
    mapLock,          \* entry whose future holds the captures map lock, 0 if free
    camera_names_ordered, \* names of the successfully initialised entries
    paths,            \* per_camera_output_paths: timestamp token per survivor
    barrier_n,        \* party count of the shutter barrier
    arrived,          \* workers blocked in the current barrier generation
    workers,          \* per worker: [dev, pc, res, ts, idx, errs, written, skipped]
    capLock,          \* per device: worker holding the VideoCapture mutex, 0 if free
    num_frames,       \* round(duration * fps) of the record batch
    threads,          \* tokio runtime worker threads
    dir,              \* output directory: "absent" | "exists"
    files,            \* artifact files on disk: [name, ts]
    clock,            \* last reading of the host clock
    ts_reads,         \* number of times the batch formatted a filename timestamp
    saved,            \* paths returned by the media manager / results of the handler
    mm_result,        \* result of the media manager call: "none" | "Ok" | "Err"
    op_result,        \* result of the handler: "none" | "Ok" | "Err"
    setup_failed,     \* main returned from configuration or registry setup
    exit_code,        \* -1 while running
    config,           \* master_config.cameras: the configured names, in file order
    selector,         \* the --cameras argument as parsed: [all, names]
    op_warned,        \* the handler reported its result with a warn! line
    time_results,     \* verify-times: per device [dev, res, time]
    sync_report,      \* verify-times: what the analysis of the times logged
    viz,              \* the Rerun stream of the handler: initialised, events
    rs,               \* one RealsenseDevice::capture_image_internal call
    snap,             \* one IpCameraDevice::capture_image call
    codec,            \* one evaluation of record_video's FourCC choice
    stamp,            \* one CameraController::get_camera_time response
    diag              \* handle_diagnostic_cli: its results and its media-manager calls

vars == <<pc, cmd, cameras, password, camera_entities, excluded, cameras_info,
          init_results, captures, mapLock, camera_names_ordered, paths,
          barrier_n, arrived, workers, capLock, num_frames, threads, dir, files, clock, ts_reads,
          saved, mm_result, op_result, setup_failed, exit_code,
          config, selector, op_warned, time_results, sync_report, viz, rs,
          snap, codec, stamp, diag>>

mainVars == <<cameras, password, setup_failed, exit_code, config>>
runVars == <<selector, op_warned, time_results, sync_report, viz>>
mmVars == <<cameras_info, init_results, captures, mapLock, camera_names_ordered,
           paths, num_frames, mm_result>>
workerVars == <<barrier_n, arrived, workers, capLock, threads, files, clock, ts_reads>>
handlerVars == <<pc, cmd, camera_entities, excluded, saved, op_result, dir>>
unitVars == <<rs, snap, codec, stamp, diag>>
progVars == <<handlerVars, mainVars, runVars, mmVars, workerVars>>

\* ---------------------------------------------------------------- helpers
SeqsUpTo(S, n) == UNION {[1..k -> S] : k \in 0..n}

Range(s) == {s[i] : i \in DOMAIN s}

HasDuplicate(s) == \E i, j \in DOMAIN s : i # j /\ s[i] = s[j]

\* A later reading of the host clock: time does not run backwards.
Now == clock..MaxClock

NewWorker(d, t) ==
    [dev |-> d, pc |-> "spawned", res |-> "none", ts |-> t,
     idx |-> 0, errs |-> 0, written |-> 0, skipped |-> 0]

AllDone == \A i \in DOMAIN workers : workers[i].pc = "done"

Path(w) == [name |-> w.dev, ts |-> w.ts]

\* No time query is running.
StampIdle ==
    [pc |-> "idle", status |-> 0, body |-> <<>>, out |-> "none", requests |-> 0,
     first |-> 0]

\* results: Vec<DiagnosticResult> is empty and no media manager was called.
DiagIdle == [results |-> <<>>, calls |-> <<>>]

\* No codec is being chosen.
CodecIdle ==
    [pc |-> "idle", video_codec |-> <<>>, video_format |-> <<>>,
     out |-> [fourcc |-> "", warned |-> FALSE]]

\* No IP snapshot is running.
SnapIdle ==
    [pc |-> "idle",
     resp |-> [sent |-> FALSE, status |-> 0, body_ok |-> FALSE, len |-> 0,
              create_ok |-> FALSE, write_ok |-> FALSE],
     out |-> [res |-> "none", file |-> "none", bytes |-> 0]]

\* No depth snapshot is running.
RsIdle ==
    [pc |-> "idle", serial |-> FALSE, color_on |-> FALSE, depth_on |-> FALSE,
     pipeline |-> "none", color |-> FALSE, depth |-> FALSE, res |-> "none"]

\* rec_stream_opt = None and nothing sent to a viewer.
NoViz == [init |-> FALSE, log |-> <<>>]

\* verify-times has logged nothing yet.
NoReport ==
    [done |-> FALSE, errors |-> 0, samples |-> <<>>, analysed |-> FALSE,
     tolerance |-> 0, system |-> <<>>, pairs |-> <<>>, host |-> 0]

Init ==
    /\ pc = "main"
    /\ cmd = "none"
    /\ cameras = {}
    /\ password = [d \in Devices |-> FALSE]
    /\ camera_entities = <<>>
    /\ excluded = <<>>
    /\ cameras_info = <<>>
    /\ init_results = <<>>
    /\ captures = {}
    /\ mapLock = 0
    /\ camera_names_ordered = <<>>
    /\ paths = <<>>
    /\ barrier_n = 0
    /\ arrived = 0
    /\ workers = <<>>
    /\ capLock = [d \in Devices |-> 0]
    /\ num_frames = 0
    /\ threads = 1
    /\ dir = "absent"
    /\ files = {}
    /\ clock = 0
    /\ ts_reads = 0
    /\ saved = <<>>
    /\ mm_result = "none"
    /\ op_result = "none"
    /\ setup_failed = FALSE
    /\ exit_code = -1
    /\ config = <<>>
    /\ selector = [all |-> TRUE, names |-> <<>>]
    /\ op_warned = FALSE
    /\ time_results = <<>>
    /\ sync_report = NoReport
    /\ viz = NoViz
    /\ diag = DiagIdle
    /\ rs = RsIdle
    /\ snap = SnapIdle
    /\ codec = CodecIdle
    /\ stamp = StampIdle

\* ------------------------------------------------------------------ main
\* validate_master_config: at least one camera, no duplicate name.
validate_master_config(cams) == cams # <<>> /\ ~HasDuplicate(cams)

\* A registry built by plain insertion: a repeated name overwrites its entry.
CameraManagerNewLastWins(cams) == [ok |-> TRUE, cameras |-> Range(cams)]

\* CameraManager::new: bail on a duplicate name, else one entry per name.
CameraManagerNew(cams) ==
    IF HasDuplicate(cams) THEN [ok |-> FALSE, cameras |-> {}]
    ELSE [ok |-> TRUE, cameras |-> Range(cams)]

\* main up to the dispatch: load_config (read, parse, validate), logging
\* initialisation, CameraManager::new (CameraEntity::new loads each password).
MainSetup ==
    /\ pc = "main"
    /\ \E cams \in SeqsUpTo(Devices, Cardinality(Devices)), readable \in BOOLEAN :
         LET reg == CameraManagerNew(cams) IN
         IF readable /\ validate_master_config(cams) /\ reg.ok
         THEN /\ \E pw \in [Devices -> BOOLEAN] :
                   /\ \A d \in Devices \ reg.cameras : ~pw[d]
                   /\ password' = pw
              /\ cameras' = reg.cameras
              /\ config' = cams
              /\ pc' = "dispatch"
              /\ UNCHANGED <<setup_failed, exit_code>>
         ELSE /\ setup_failed' = TRUE
              /\ exit_code' = 1
              /\ pc' = "exited"
              /\ config' = IF readable THEN cams ELSE <<>>
              /\ UNCHANGED <<cameras, password>>
    /\ UNCHANGED <<cmd, camera_entities, excluded, saved, op_result, dir>>
    /\ UNCHANGED unitVars
    /\ UNCHANGED runVars
    /\ UNCHANGED mmVars
    /\ UNCHANGED workerVars

\* parse_camera_names_arg: None (all cameras) or the comma-separated names.
Selectors ==
    {[all |-> TRUE, names |-> <<>>]}
        \cup {[all |-> FALSE, names |-> s] : s \in SeqsUpTo(Devices, MaxSel)}

\* CameraManager::get_cameras_by_names: one handle per requested name that is
\* registered, in the order requested.
get_cameras_by_names(names) ==
    SelectSeq(names, LAMBDA n : n \in cameras)

\* CameraManager::get_all_cameras: the values of the map, in the map's order.
get_all_cameras ==
    {s \in [1..Cardinality(cameras) -> cameras] : Range(s) = cameras}

\* op_helper::determine_target_cameras: parse the argument and ask the registry.
determine_target_cameras(sel) ==
    IF sel.all THEN get_all_cameras ELSE {get_cameras_by_names(sel.names)}

\* main's match on the subcommand; capture-image and capture-video read the
\* --cameras argument, verify-times ignores its arguments.
\* A handler that never takes the early return for an empty target list.
NoTargetsIgnored(ents) == FALSE

\* camera_entities.is_empty(): the handler returns Ok(()) at once.
NoTargets(ents) == ents = <<>>

Dispatch ==
    /\ pc = "dispatch"
    /\ \E c \in {"capture-image", "capture-video", "verify-times", "test"} :
         /\ cmd' = c
         /\ pc' = c
         /\ IF c \in {"capture-image", "capture-video"}
            THEN \E sel \in Selectors : selector' = sel
            ELSE UNCHANGED selector
    /\ UNCHANGED <<camera_entities, excluded, saved, op_result, dir>>
    /\ UNCHANGED <<op_warned, time_results, sync_report, viz>>
    /\ UNCHANGED mainVars
    /\ UNCHANGED unitVars
    /\ UNCHANGED mmVars
    /\ UNCHANGED workerVars

\* main after the handler returned: Err(e) is returned from main (exit status 1).
MainExit ==
    /\ pc = "op_returned"
    /\ exit_code' = IF op_result = "Err" THEN 1 ELSE 0
    /\ pc' = "exited"
    /\ UNCHANGED <<cmd, cameras, password, setup_failed, config, camera_entities,
                   excluded, saved, op_result, dir>>
    /\ UNCHANGED unitVars
    /\ UNCHANGED runVars
    /\ UNCHANGED mmVars
    /\ UNCHANGED workerVars

\* ------------------------------------------------- shutter barrier, workers
\* A barrier created for a single party: it releases every caller at once.
ShutterPartiesSingle(survivors) == IF survivors = <<>> THEN 0 ELSE 1

\* Barrier::new(n): the party count is the number of surviving entries.
ShutterParties(survivors) == Len(survivors)

\* std::sync::Barrier::wait by worker i: the caller blocks until barrier_n
\* callers of the current generation have arrived; the last one releases all.
BarrierWait(i) ==
    IF arrived + 1 >= barrier_n
    THEN /\ workers' = [j \in DOMAIN workers |->
                          IF j = i \/ workers[j].pc = "barrier"
                          THEN [workers[j] EXCEPT !.pc = "passed"]
                          ELSE workers[j]]
         /\ arrived' = 0
    ELSE /\ workers' = [workers EXCEPT ![i].pc = "barrier"]
         /\ arrived' = arrived + 1

\* The worker's closure returns (or unwinds): its guard on the device is dropped.
Release(i) ==
    [d \in Devices |-> IF capLock[d] = i THEN 0 ELSE capLock[d]]

\* The closure's result is r; its locals (frame index, error count, frames
\* written) are gone.
Finish(i, r) ==
    [workers EXCEPT ![i].pc = "done", ![i].res = r, ![i].idx = 0, ![i].errs = 0,
                    ![i].written = 0, ![i].skipped = 0]

\* The paths of the workers that returned Ok(path), in spawn order.
RECURSIVE OkPathsUpTo(_)
OkPathsUpTo(n) ==
    IF n = 0 THEN <<>>
    ELSE IF workers[n].res = "ok"
         THEN Append(OkPathsUpTo(n - 1), Path(workers[n]))
         ELSE OkPathsUpTo(n - 1)

\* A collection that gives up at the first device error (try_join_all-like).
OkPathsAbortOnErr ==
    IF \E i \in DOMAIN workers : workers[i].res = "err"
    THEN <<>> ELSE OkPathsUpTo(Len(workers))

OkPaths == OkPathsUpTo(Len(workers))

\* rec_stream.flush_blocking()
FlushBlocking ==
    [kind |-> "flush", name |-> "", idx |-> 0, path |-> [name |-> "", ts |-> 0]]

\* The handler returns before its Rerun block: the stream, initialised or not,
\* is dropped without a call of flush_blocking.
EarlyReturn(rec) == [init |-> rec, log |-> <<>>]

\* capture-image, rec_stream.log per result: the results are visited in task
\* order, an Ok(path) whose file is read and decoded (shown) is logged under
\* the entity path "camera/camera_{idx}/image".
ImageEmissions(shown) ==
    LET ev == [k \in DOMAIN workers |->
                 [kind |-> "log", name |-> "", idx |-> k - 1, path |-> Path(workers[k])]]
        RECURSIVE UpTo(_)
        UpTo(n) == IF n = 0 THEN <<>>
                   ELSE IF n \in shown THEN Append(UpTo(n - 1), ev[n])
                   ELSE UpTo(n - 1)
    IN UpTo(Len(workers))

\* A worker panics after the barrier: the task ends with a JoinError and the
\* unwinding drops its guard.
WorkerPanic(i) ==
    /\ pc \in {"cli_join", "mm_join"}
    /\ workers[i].pc \in {"http", "reading", "setup", "loop"}
    /\ workers' = Finish(i, "panic")
    /\ capLock' = Release(i)
    /\ UNCHANGED <<pc, cmd, camera_entities, excluded, saved, op_result, dir,
                   barrier_n, arrived, threads, files, clock, ts_reads>>
    /\ UNCHANGED mainVars
    /\ UNCHANGED unitVars
    /\ UNCHANGED runVars
    /\ UNCHANGED mmVars

\* ------------------------------------------- handle_capture_image_cli
\* Up to the spawn loop: resolve the targets, determine the output directory,
\* collect (name, ip, user, pass) with `?` on a missing password, create the
\* barrier, format the single timestamp and spawn one tokio task per target.
CaptureImageCli ==
    /\ pc = "capture-image"
    /\ \E ents \in determine_target_cameras(selector) :
       \E dirOk \in BOOLEAN, t \in Now, th \in 1..MaxThreads :
         /\ camera_entities' = ents
         /\ IF NoTargets(ents)
            THEN /\ op_result' = "Ok"
                 /\ pc' = "op_returned"
                 /\ \E rec \in BOOLEAN : viz' = EarlyReturn(rec)
                 /\ UNCHANGED <<dir, barrier_n, workers, threads, clock, ts_reads>>
            ELSE IF ~dirOk \/ \E k \in DOMAIN ents : ~password[ents[k]]
            THEN /\ op_result' = "Err"
                 /\ pc' = "op_returned"
                 /\ \E rec \in BOOLEAN : viz' = EarlyReturn(rec)
                 /\ dir' = IF dirOk THEN "exists" ELSE dir
                 /\ UNCHANGED <<barrier_n, workers, threads, clock, ts_reads>>
            ELSE /\ dir' = "exists"
                 /\ UNCHANGED viz
                 /\ barrier_n' = ShutterParties(ents)
                 /\ clock' = t
                 /\ ts_reads' = ts_reads + 1
                 /\ workers' = [k \in DOMAIN ents |-> NewWorker(ents[k], t)]
                 /\ threads' = th
                 /\ pc' = "cli_join"
                 /\ UNCHANGED op_result
    /\ UNCHANGED <<cmd, excluded, saved, arrived, capLock, files>>
    /\ UNCHANGED mainVars
    /\ UNCHANGED unitVars
    /\ UNCHANGED <<selector, op_warned, time_results, sync_report>>
    /\ UNCHANGED mmVars

\* A spawned task is polled on a free runtime thread and calls bar.wait(),
\* which blocks that thread until the barrier releases.
TaskBarrierWait(i) ==
    /\ pc = "cli_join"
    /\ workers[i].pc = "spawned"
    /\ Cardinality({j \in DOMAIN workers : workers[j].pc = "barrier"}) < threads
    /\ BarrierWait(i)
    /\ UNCHANGED <<pc, cmd, camera_entities, excluded, saved, op_result, dir,
                   barrier_n, capLock, threads, files, clock, ts_reads>>
    /\ UNCHANGED mainVars
    /\ UNCHANGED unitVars
    /\ UNCHANGED runVars
    /\ UNCHANGED mmVars

\* The snapshot request is sent (send_with_digest_auth); no device lock is held.
TaskSend(i) ==
    /\ pc = "cli_join"
    /\ workers[i].pc = "passed"
    /\ workers' = [workers EXCEPT ![i].pc = "http"]
    /\ UNCHANGED <<pc, cmd, camera_entities, excluded, saved, op_result, dir,
                   barrier_n, arrived, capLock, threads, files, clock, ts_reads>>
    /\ UNCHANGED mainVars
    /\ UNCHANGED unitVars
    /\ UNCHANGED runVars
    /\ UNCHANGED mmVars

\* The response arrives and the body is written: a transport error, a non-2xx
\* status or a body error ("http_err"), File::create fails ("create_err"),
\* write_all fails after the file was created ("write_err"), or success.
TaskFinish(i) ==
    /\ pc = "cli_join"
    /\ workers[i].pc = "http"
    /\ \E o \in {"http_err", "create_err", "write_err", "ok"} :
         /\ workers' = Finish(i, IF o = "ok" THEN "ok" ELSE "err")
         /\ files' = IF o \in {"write_err", "ok"}
                     THEN files \cup {Path(workers[i])} ELSE files
    /\ UNCHANGED <<pc, cmd, camera_entities, excluded, saved, op_result, dir,
                   barrier_n, arrived, capLock, threads, clock, ts_reads>>
    /\ UNCHANGED mainVars
    /\ UNCHANGED unitVars
    /\ UNCHANGED runVars
    /\ UNCHANGED mmVars

\* try_join_all(handles).await?: the first JoinError (a panicked task) is
\* returned at once; otherwise the results of all tasks are collected.
CaptureImageJoin ==
    /\ pc = "cli_join"
    /\ \/ /\ \E i \in DOMAIN workers : workers[i].res = "panic"
          /\ op_result' = "Err"
          /\ \E rec \in BOOLEAN : viz' = EarlyReturn(rec)
          /\ UNCHANGED saved
       \/ /\ AllDone
          /\ \A i \in DOMAIN workers : workers[i].res # "panic"
          /\ op_result' = "Ok"
          /\ saved' = OkPaths
          /\ \E rec \in BOOLEAN :
             \E shown \in SUBSET {i \in DOMAIN workers : workers[i].res = "ok"} :
                viz' = IF rec
                       THEN [init |-> TRUE,
                             log |-> Append(ImageEmissions(shown), FlushBlocking)]
                       ELSE NoViz
    /\ pc' = "op_returned"
    /\ UNCHANGED <<cmd, camera_entities, excluded, dir>>
    /\ UNCHANGED mainVars
    /\ UNCHANGED unitVars
    /\ UNCHANGED <<selector, op_warned, time_results, sync_report>>
    /\ UNCHANGED mmVars
    /\ UNCHANGED workerVars

\* ------------------------------------------------ handle_record_video_cli
\* Up to the call of record_video: resolve the targets, keep the cameras whose
\* RTSP URL can be built (a missing password excludes the camera), fail when
\* none is left, determine the output directory.
RecordVideoCli ==
    /\ pc = "capture-video"
    /\ \E ents \in determine_target_cameras(selector) :
       \E dirOk \in BOOLEAN, n \in 0..MaxFrames :
         LET info == SelectSeq(ents, LAMBDA d : password[d]) IN
         /\ camera_entities' = ents
         /\ IF NoTargets(ents)
            THEN /\ op_result' = "Ok"
                 /\ pc' = "op_returned"
                 /\ \E rec \in BOOLEAN : viz' = EarlyReturn(rec)
                 /\ UNCHANGED <<excluded, cameras_info, dir, num_frames>>
            ELSE /\ excluded' = SelectSeq(ents, LAMBDA d : ~password[d])
                 /\ IF info = <<>> \/ ~dirOk
                    THEN /\ op_result' = "Err"
                         /\ pc' = "op_returned"
                         /\ \E rec \in BOOLEAN : viz' = EarlyReturn(rec)
                         /\ UNCHANGED <<cameras_info, dir, num_frames>>
                    ELSE /\ cameras_info' = info
                         /\ dir' = "exists"
                         /\ num_frames' = n
                         /\ pc' = "mm_enter"
                         /\ UNCHANGED <<op_result, viz>>
    /\ UNCHANGED <<cmd, saved, init_results, captures, mapLock,
                   camera_names_ordered, paths, mm_result>>
    /\ UNCHANGED mainVars
    /\ UNCHANGED unitVars
    /\ UNCHANGED <<selector, op_warned, time_results, sync_report>>
    /\ UNCHANGED workerVars

\* capture-video, rec_stream.log per frame: the recorded files are visited in
\* the order of paths; the file at index idx is replayed (frames[idx] frames
\* are read back from the file saved[idx] and logged) under
\* "recorded_videos/{name}/frame", the name being cameras_info.get(idx), else
\* under "capture/video_stream_{idx}".
RECURSIVE VideoEmissions(_, _, _)
VideoEmissions(info, frames, n) ==
    IF n = 0 THEN <<>>
    ELSE VideoEmissions(info, frames, n - 1)
            \o [f \in 1..frames[n] |->
                  [kind |-> "log",
                   name |-> IF n \in DOMAIN info THEN info[n] ELSE "",
                   idx |-> n - 1,
                   path |-> saved[n]]]

\* record_video returned: Ok(paths) => Ok(()), Err(e) => Err(e). Ok with no
\* path at all is reported with warn!, Ok with paths with info! lines; only
\* that last branch replays the files to the Rerun stream and flushes it.
RecordVideoReturn ==
    /\ pc = "mm_returned"
    /\ cmd = "capture-video"
    /\ op_result' = mm_result
    /\ op_warned' = (mm_result = "Ok" /\ saved = <<>> /\ cameras_info # <<>>)
    /\ \E rec \in BOOLEAN :
         IF mm_result = "Ok" /\ saved # <<>>
         THEN \E frames \in [DOMAIN saved -> 0..MaxFrames] :
                viz' = IF rec
                       THEN [init |-> TRUE,
                             log |-> Append(VideoEmissions(cameras_info, frames, Len(saved)),
                                            FlushBlocking)]
                       ELSE NoViz
         ELSE viz' = EarlyReturn(rec)
    /\ pc' = "op_returned"
    /\ UNCHANGED <<cmd, camera_entities, excluded, saved, dir>>
    /\ UNCHANGED <<selector, time_results, sync_report>>
    /\ UNCHANGED mainVars
    /\ UNCHANGED unitVars
    /\ UNCHANGED mmVars
    /\ UNCHANGED workerVars

\* What one time-check task ends with: the camera's time (whole seconds, as
\* DateTime::timestamp gives them), a transport or a parse error of the query,
\* "not applicable" for a non-IP device, or a panic.
TimeOutcomes ==
    {[res |-> "ok", time |-> c] : c \in 0..MaxTime}
        \cup {[res |-> r, time |-> 0] : r \in {"transport", "parse", "na", "panic"}}

\* application.time_sync_tolerance_seconds: Option<f64>, here in half seconds.
ToleranceConfigs ==
    {[set |-> FALSE, halves |-> 0]}
        \cup {[set |-> TRUE, halves |-> h] : h \in 0..(2 * MaxTolerance + 1)}

\* unwrap_or(0.0) as i64: the fraction of the configured value is cut off.
tolerance_seconds(cfg) == IF cfg.set THEN cfg.halves \div 2 ELSE 0

\* The result loop: Ok(Ok(time_data)) is pushed, in the order of the tasks.
successful_times(results) == SelectSeq(results, LAMBDA r : r.res = "ok")

\* The result loop: Ok(Err(_)) and Err(join_err) both add one to task_errors.
task_errors(results) ==
    Cardinality({k \in DOMAIN results : results[k].res # "ok"})

\* (x.timestamp() - y.timestamp()).abs()
diff_seconds(x, y) == IF x > y THEN x - y ELSE y - x

\* A comparison that also rejects a difference equal to the tolerance.
OutOfSyncInclusive(x, y, tol) == diff_seconds(x, y) >= tol

\* if diff_seconds > tolerance_seconds { warn!(".. OUT OF SYNC ..") }
OutOfSync(x, y, tol) == diff_seconds(x, y) > tol

\* system_time_now.timestamp(): the whole seconds of the host time, which is
\* kept in half seconds.
timestamp(now) == now \div 2

\* The system check: one log line per successful sample.
SystemCheck(samples, now, tol) ==
    [k \in DOMAIN samples |-> OutOfSync(samples[k].time, timestamp(now), tol)]

\* for i in 0..len { for j in (i + 1)..len { .. } }: the index pairs in the
\* order the loops visit them.
RECURSIVE PairLoop(_, _, _)
PairLoop(n, i, j) ==
    IF i > n THEN <<>>
    ELSE IF j > n THEN PairLoop(n, i + 1, i + 2)
    ELSE <<(<<i, j>>)>> \o PairLoop(n, i, j + 1)

\* Inter-camera loops that visit every ordered pair of indices.
InterCameraPairsOrdered(samples) ==
    LET n == Len(samples) IN
    [k \in 1..(n * n) |-> <<((k - 1) \div n) + 1, ((k - 1) % n) + 1>>]

\* if successful_times.len() > 1 { the two loops } else nothing is compared.
InterCameraPairs(samples) ==
    IF Len(samples) > 1 THEN PairLoop(Len(samples), 1, 2) ELSE <<>>

\* The inter-camera check: one log line per visited pair.
InterCameraCheck(samples, tol) ==
    LET ps == InterCameraPairs(samples) IN
    [k \in DOMAIN ps |->
        [i |-> ps[k][1], j |-> ps[k][2],
         out |-> OutOfSync(samples[ps[k][1]].time, samples[ps[k][2]].time, tol)]]

\* What handle_verify_times_cli logs after join_all: the early return when no
\* time was retrieved, else the tolerance and the two checks. now is the host
\* time read by Utc::now() at the start, in half seconds.
Analyse(results, now, cfg) ==
    LET samples == successful_times(results)
        tol == tolerance_seconds(cfg)
    IN IF samples = <<>>
       THEN [done |-> TRUE, errors |-> task_errors(results), samples |-> <<>>,
             analysed |-> FALSE, tolerance |-> 0, system |-> <<>>, pairs |-> <<>>,
             host |-> now]
       ELSE [done |-> TRUE, errors |-> task_errors(results), samples |-> samples,
             analysed |-> TRUE, tolerance |-> tol,
             system |-> SystemCheck(samples, now, tol),
             pairs |-> InterCameraCheck(samples, tol),
             host |-> now]

\* A verifier that fails when no camera time could be retrieved.
VerifyResultStrict(results) ==
    IF \A k \in DOMAIN results : results[k].res # "ok" THEN "Err" ELSE "Ok"

\* handle_verify_times_cli after join_all: every return is Ok(()); the sync
\* status is only logged.
VerifyResult(results) == "Ok"

\* handle_verify_times_cli: the system time is read once, one task per
\* registered device queries its time, join_all collects Ok, Err and panics,
\* and the times are compared with the system time and with each other.
VerifyTimesCli ==
    /\ pc = "verify-times"
    /\ \E ents \in get_all_cameras, t \in Now, half \in 0..1, cfg \in ToleranceConfigs :
       \E outs \in [DOMAIN ents -> TimeOutcomes] :
         LET results == [k \in DOMAIN ents |->
                           [dev |-> ents[k], res |-> outs[k].res, time |-> outs[k].time]]
         IN /\ time_results' = results
            /\ clock' = t
            /\ sync_report' = Analyse(results, 2 * t + half, cfg)
            /\ op_result' = VerifyResult(results)
    /\ pc' = "op_returned"
    /\ UNCHANGED <<cmd, camera_entities, excluded, saved, dir>>
    /\ UNCHANGED <<selector, op_warned, viz>>
    /\ UNCHANGED <<barrier_n, arrived, workers, capLock, threads, files, ts_reads>>
    /\ UNCHANGED mainVars
    /\ UNCHANGED unitVars
    /\ UNCHANGED mmVars

\* The device types of the registry.
CameraTypes == {"ip-camera", "realsense"}

\* capture_image and record_video with the list they are given by the
\* diagnostic suite: `if cameras_info.is_empty() { return Ok(Vec::new()) }`.
MediaCall(op, name, info) ==
    [op |-> op, name |-> name, cameras_info |-> info,
     result |-> IF info = <<>> THEN "Ok" ELSE "none",
     paths |-> <<>>]

\* The match on the media manager's result: PASS when Ok carries a first path,
\* FAIL for Ok without a path and for Err.
TestResult(call) ==
    [test |-> call.op, name |-> call.name,
     success |-> (call.result = "Ok" /\ call.paths # <<>>), skipped |-> FALSE]

\* The else branch: both tests are pushed as passed with "Skipped".
SkippedResult(op, name) ==
    [test |-> op, name |-> name, success |-> TRUE, skipped |-> TRUE]

\* The two media-manager calls made for one IP camera: each receives
\* Vec::new() as its list of (name, url).
CameraCalls(name, type) ==
    IF type = "ip-camera"
    THEN <<MediaCall("capture_image", name, <<>>), MediaCall("record_video", name, <<>>)>>
    ELSE <<>>

\* The results pushed for one camera.
CameraResults(name, type) ==
    IF type = "ip-camera"
    THEN <<TestResult(MediaCall("capture_image", name, <<>>)),
           TestResult(MediaCall("record_video", name, <<>>))>>
    ELSE <<SkippedResult("capture_image", name), SkippedResult("record_video", name)>>

\* `for cam_arc in &all_cameras`: the calls and the results of the first n
\* cameras, in order.
RECURSIVE DiagLoop(_, _, _)
DiagLoop(ents, types, n) ==
    IF n = 0 THEN DiagIdle
    ELSE LET before == DiagLoop(ents, types, n - 1) IN
         [results |-> before.results \o CameraResults(ents[n], types[ents[n]]),
          calls |-> before.calls \o CameraCalls(ents[n], types[ents[n]])]

\* handle_diagnostic_cli: the time synchronization test (handle_verify_times_cli
\* is called and its result pushed), the diagnostic output directory (a failed
\* creation is only logged), the per-camera loop, the summary; Ok(()) on every
\* path.
DiagnosticCli ==
    /\ pc = "test"
    /\ \E ents \in get_all_cameras, t \in Now, half \in 0..1, cfg \in ToleranceConfigs :
       \E outs \in [DOMAIN ents -> TimeOutcomes], types \in [cameras -> CameraTypes] :
         LET results == [k \in DOMAIN ents |->
                           [dev |-> ents[k], res |-> outs[k].res, time |-> outs[k].time]]
             sync == [test |-> "time_sync", name |-> "",
                      success |-> (VerifyResult(results) = "Ok"), skipped |-> FALSE]
             loop == DiagLoop(ents, types, Len(ents))
         IN /\ time_results' = results
            /\ clock' = t
            /\ sync_report' = Analyse(results, 2 * t + half, cfg)
            /\ diag' = [results |-> <<sync>> \o loop.results, calls |-> loop.calls]
    /\ \E created \in BOOLEAN :
         dir' = IF dir = "absent" /\ created THEN "exists" ELSE dir
    /\ op_result' = "Ok"
    /\ pc' = "op_returned"
    /\ UNCHANGED <<cmd, camera_entities, excluded, saved>>
    /\ UNCHANGED <<selector, op_warned, viz>>
    /\ UNCHANGED <<barrier_n, arrived, workers, capLock, threads, files, ts_reads>>
    /\ UNCHANGED mainVars
    /\ UNCHANGED <<rs, snap, codec, stamp>>
    /\ UNCHANGED mmVars

\* A direct call of CameraMediaManager::capture_image(cameras_info, ..).
LibCaptureImage ==
    /\ pc = "main"
    /\ cmd' = "lib-capture-image"
    /\ \E info \in SeqsUpTo(Devices, MaxSel) : cameras_info' = info
    /\ pc' = "mm_enter"
    /\ UNCHANGED <<camera_entities, excluded, saved, op_result, dir, init_results,
                   captures, mapLock, camera_names_ordered, paths, num_frames,
                   mm_result>>
    /\ UNCHANGED mainVars
    /\ UNCHANGED unitVars
    /\ UNCHANGED runVars
    /\ UNCHANGED workerVars

\* ------------------------------------------------------ CameraMediaManager
IsRecord == cmd = "capture-video"

\* capture_image / record_video entered: an empty list returns Ok(vec![]);
\* otherwise one get_or_init_capture future per entry is queued.
MmEnter ==
    /\ pc = "mm_enter"
    /\ IF cameras_info = <<>>
       THEN /\ mm_result' = "Ok"
            /\ saved' = <<>>
            /\ pc' = "mm_returned"
            /\ UNCHANGED init_results
       ELSE /\ init_results' = [k \in DOMAIN cameras_info |-> "pending"]
            /\ pc' = "mm_init"
            /\ UNCHANGED <<mm_result, saved>>
    /\ UNCHANGED <<cmd, camera_entities, excluded, op_result, dir, cameras_info,
                   captures, mapLock, camera_names_ordered, paths, num_frames>>
    /\ UNCHANGED mainVars
    /\ UNCHANGED unitVars
    /\ UNCHANGED runVars
    /\ UNCHANGED workerVars

\* get_or_init_capture, first half: the future takes the captures map lock
\* (tokio's Mutex is FIFO and join_all polls the futures in order); a name
\* already in the map returns its handle, otherwise the stream is being opened
\* while the lock is held.
InitLock(i) ==
    /\ pc = "mm_init"
    /\ init_results[i] = "pending"
    /\ mapLock = 0
    /\ \A j \in 1..(i - 1) : init_results[j] # "pending"
    /\ IF cameras_info[i] \in captures
       THEN /\ init_results' = [init_results EXCEPT ![i] = "ok"]
            /\ UNCHANGED mapLock
       ELSE /\ init_results' = [init_results EXCEPT ![i] = "opening"]
            /\ mapLock' = i
    /\ UNCHANGED <<pc, cmd, camera_entities, excluded, saved, op_result, dir,
                   cameras_info, captures, camera_names_ordered, paths, num_frames,
                   mm_result>>
    /\ UNCHANGED mainVars
    /\ UNCHANGED unitVars
    /\ UNCHANGED runVars
    /\ UNCHANGED workerVars

\* A map that receives a handle whatever the open returned.
CapturesAfterAnyOpen(caps, name, o) == caps \cup {name}

\* captures_map.insert runs only after from_file and is_opened succeeded; every
\* failure returns before it.
CapturesAfterOpen(caps, name, o) == IF o = "ok" THEN caps \cup {name} ELSE caps

\* get_or_init_capture, second half: VideoCapture::from_file and is_opened
\* succeeded (the handle is inserted) or one of them failed; the lock is dropped.
InitOpen(i) ==
    /\ pc = "mm_init"
    /\ init_results[i] = "opening"
    /\ \E o \in {"ok", "err"} :
         /\ init_results' = [init_results EXCEPT ![i] = o]
         /\ captures' = CapturesAfterOpen(captures, cameras_info[i], o)
    /\ mapLock' = 0
    /\ UNCHANGED <<pc, cmd, camera_entities, excluded, saved, op_result, dir,
                   cameras_info, camera_names_ordered, paths, num_frames, mm_result>>
    /\ UNCHANGED mainVars
    /\ UNCHANGED unitVars
    /\ UNCHANGED runVars
    /\ UNCHANGED workerVars

\* A wait that returns as soon as one initialisation has completed.
InitAnyDone == \E k \in DOMAIN init_results : init_results[k] \in {"ok", "err"}

\* join_all(capture_init_futures).await has returned.
InitAllDone == \A k \in DOMAIN init_results : init_results[k] \in {"ok", "err"}

\* The names of the entries whose initialisation returned Ok, in order.
RECURSIVE SurvivorsUpTo(_)
SurvivorsUpTo(n) ==
    IF n = 0 THEN <<>>
    ELSE IF init_results[n] = "ok"
         THEN Append(SurvivorsUpTo(n - 1), cameras_info[n])
         ELSE SurvivorsUpTo(n - 1)

\* After join_all: collect the survivors, return Ok(vec![]) if there is none,
\* create the output directory if needed (`?`); capture_image then creates the
\* barrier and spawns its workers, record_video goes on to format the paths.
MmPlan ==
    /\ pc = "mm_init"
    /\ InitAllDone
    /\ LET names == SurvivorsUpTo(Len(init_results)) IN
       \E created \in BOOLEAN :
         /\ camera_names_ordered' = names
         /\ IF names = <<>>
            THEN /\ mm_result' = "Ok"
                 /\ saved' = <<>>
                 /\ pc' = "mm_returned"
                 /\ UNCHANGED <<dir, barrier_n, workers>>
            ELSE IF dir = "absent" /\ ~created
            THEN /\ mm_result' = "Err"
                 /\ pc' = "mm_returned"
                 /\ UNCHANGED <<saved, dir, barrier_n, workers>>
            ELSE /\ dir' = "exists"
                 /\ UNCHANGED <<mm_result, saved>>
                 /\ IF IsRecord
                    THEN /\ pc' = "mm_paths"
                         /\ UNCHANGED <<barrier_n, workers>>
                    ELSE /\ barrier_n' = ShutterParties(names)
                         /\ workers' = [k \in DOMAIN names |-> NewWorker(names[k], -1)]
                         /\ pc' = "mm_join"
    /\ UNCHANGED <<cmd, camera_entities, excluded, op_result, cameras_info,
                   init_results, captures, mapLock, paths, num_frames>>
    /\ UNCHANGED <<arrived, capLock, threads, files, clock, ts_reads>>
    /\ UNCHANGED mainVars
    /\ UNCHANGED unitVars
    /\ UNCHANGED runVars

\* record_video: the loop over camera_names_ordered formats Utc::now() for the
\* next camera's file name.
FormatPath ==
    /\ pc = "mm_paths"
    /\ Len(paths) < Len(camera_names_ordered)
    /\ \E t \in Now :
         /\ paths' = Append(paths, t)
         /\ clock' = t
    /\ ts_reads' = ts_reads + 1
    /\ UNCHANGED <<pc, cmd, camera_entities, excluded, saved, op_result, dir,
                   cameras_info, init_results, captures, mapLock,
                   camera_names_ordered, num_frames, mm_result>>
    /\ UNCHANGED <<barrier_n, arrived, workers, capLock, threads, files>>
    /\ UNCHANGED mainVars
    /\ UNCHANGED unitVars
    /\ UNCHANGED runVars

\* record_video: the barrier is created and one blocking worker is spawned per
\* survivor with its output path.
SpawnRecord ==
    /\ pc = "mm_paths"
    /\ Len(paths) = Len(camera_names_ordered)
    /\ barrier_n' = ShutterParties(camera_names_ordered)
    /\ workers' = [k \in DOMAIN camera_names_ordered |->
                     NewWorker(camera_names_ordered[k], paths[k])]
    /\ pc' = "mm_join"
    /\ UNCHANGED <<cmd, camera_entities, excluded, saved, op_result, dir>>
    /\ UNCHANGED <<arrived, capLock, threads, files, clock, ts_reads>>
    /\ UNCHANGED mainVars
    /\ UNCHANGED unitVars
    /\ UNCHANGED runVars
    /\ UNCHANGED mmVars

\* ------------------------------------------------------- blocking workers
MAX_CONSECUTIVE_READ_ERRORS == 5

\* spawn_blocking closure, first statement: barrier_clone.wait().
BlockingBarrierWait(i) ==
    /\ pc = "mm_join"
    /\ workers[i].pc = "spawned"
    /\ BarrierWait(i)
    /\ UNCHANGED <<pc, cmd, camera_entities, excluded, saved, op_result, dir,
                   barrier_n, capLock, threads, files, clock, ts_reads>>
    /\ UNCHANGED mainVars
    /\ UNCHANGED unitVars
    /\ UNCHANGED runVars
    /\ UNCHANGED mmVars

\* A mutex that never makes a worker wait.
MayLockAlways(i) == TRUE

\* The worker may take the device's mutex when no other worker holds it.
MayLock(i) == capLock[workers[i].dev] = 0

\* block_on(cap.lock()) / cap.blocking_lock(): the guard is held until the
\* closure returns; the device is then read (capture_image) or queried and
\* read frame by frame (record_video).
LockCapture(i) ==
    /\ pc = "mm_join"
    /\ workers[i].pc = "passed"
    /\ MayLock(i)
    /\ capLock' = [capLock EXCEPT ![workers[i].dev] = i]
    /\ workers' = [workers EXCEPT ![i].pc = IF IsRecord THEN "setup" ELSE "reading"]
    /\ UNCHANGED <<pc, cmd, camera_entities, excluded, saved, op_result, dir,
                   barrier_n, arrived, threads, files, clock, ts_reads>>
    /\ UNCHANGED mainVars
    /\ UNCHANGED unitVars
    /\ UNCHANGED runVars
    /\ UNCHANGED mmVars

\* capture_image: cap_guard.read returned: an error or false ("err"), an empty
\* frame ("empty"), or a frame, after which Utc::now() is taken for the name.
ImageRead(i) ==
    /\ pc = "mm_join"
    /\ workers[i].pc = "reading"
    /\ \E o \in {"err", "empty", "ok"}, t \in Now :
         IF o = "ok"
         THEN /\ workers' = [workers EXCEPT ![i].pc = "got_frame", ![i].ts = t]
              /\ clock' = t
              /\ ts_reads' = ts_reads + 1
              /\ UNCHANGED capLock
         ELSE /\ workers' = Finish(i, "err")
              /\ capLock' = Release(i)
              /\ UNCHANGED <<clock, ts_reads>>
    /\ UNCHANGED <<pc, cmd, camera_entities, excluded, saved, op_result, dir,
                   barrier_n, arrived, threads, files>>
    /\ UNCHANGED mainVars
    /\ UNCHANGED unitVars
    /\ UNCHANGED runVars
    /\ UNCHANGED mmVars

\* capture_image: imgcodecs::imwrite returned Err ("err"), Ok(false) without
\* writing ("false") or Ok(true); only Err makes the worker fail.
ImageWrite(i) ==
    /\ pc = "mm_join"
    /\ workers[i].pc = "got_frame"
    /\ \E o \in {"err", "false", "ok"} :
         /\ workers' = Finish(i, IF o = "err" THEN "err" ELSE "ok")
         /\ files' = IF o = "ok" THEN files \cup {Path(workers[i])} ELSE files
    /\ capLock' = Release(i)
    /\ UNCHANGED <<pc, cmd, camera_entities, excluded, saved, op_result, dir,
                   barrier_n, arrived, threads, clock, ts_reads>>
    /\ UNCHANGED mainVars
    /\ UNCHANGED unitVars
    /\ UNCHANGED runVars
    /\ UNCHANGED mmVars

\* record_video: stream properties, fourcc and VideoWriter::new: one of them
\* fails ("err"), the writer is not opened and the file is removed if it
\* exists ("not_opened"), or the writer is opened on the output path.
RecordSetup(i) ==
    /\ pc = "mm_join"
    /\ workers[i].pc = "setup"
    /\ \E o \in {"err", "not_opened", "ok"} :
         IF o = "ok"
         THEN /\ workers' = [workers EXCEPT ![i].pc = "loop"]
              /\ files' = files \cup {Path(workers[i])}
              /\ UNCHANGED capLock
         ELSE /\ workers' = Finish(i, "err")
              /\ files' = IF o = "not_opened" THEN files \ {Path(workers[i])} ELSE files
              /\ capLock' = Release(i)
    /\ UNCHANGED <<pc, cmd, camera_entities, excluded, saved, op_result, dir,
                   barrier_n, arrived, threads, clock, ts_reads>>
    /\ UNCHANGED mainVars
    /\ UNCHANGED unitVars
    /\ UNCHANGED runVars
    /\ UNCHANGED mmVars

\* A loop that tries the same frame slot again after a failed read or an
\* empty frame.
RetrySameSlot(frame_idx, o) ==
    IF o \in {"read_false", "empty"} THEN frame_idx ELSE frame_idx + 1

\* `for frame_idx in 0..num_frames`: `continue` and the end of the body both
\* go to the next index, whatever the iteration did.
NextFrameIdx(frame_idx, o) == frame_idx + 1

\* record_video: one iteration of `for frame_idx in 0..num_frames`; written
\* counts the frames given to the writer, skipped the iterations that went on
\* without writing (a read that returned false, an empty frame).
RecordFrame(i) ==
    /\ pc = "mm_join"
    /\ workers[i].pc = "loop"
    /\ workers[i].idx < num_frames
    /\ \E o \in {"read_err", "read_false", "empty", "written", "write_err"} :
         LET w == workers[i] IN
         IF o \in {"read_err", "write_err"}
            \/ (o = "read_false" /\ w.errs + 1 > MAX_CONSECUTIVE_READ_ERRORS)
         THEN /\ workers' = Finish(i, "err")
              /\ capLock' = Release(i)
         ELSE /\ workers' = [workers EXCEPT
                    ![i].idx = NextFrameIdx(w.idx, o),
                    ![i].errs = IF o = "read_false" THEN w.errs + 1 ELSE 0,
                    ![i].written = IF o = "written" THEN w.written + 1 ELSE w.written,
                    ![i].skipped = IF o \in {"read_false", "empty"}
                                   THEN w.skipped + 1 ELSE w.skipped]
              /\ UNCHANGED capLock
    /\ UNCHANGED <<pc, cmd, camera_entities, excluded, saved, op_result, dir,
                   barrier_n, arrived, threads, files, clock, ts_reads>>
    /\ UNCHANGED mainVars
    /\ UNCHANGED unitVars
    /\ UNCHANGED runVars
    /\ UNCHANGED mmVars

\* record_video: the loop is over, the writer is dropped, Ok(output_path).
RecordFinish(i) ==
    /\ pc = "mm_join"
    /\ workers[i].pc = "loop"
    /\ workers[i].idx = num_frames
    /\ workers' = Finish(i, "ok")
    /\ capLock' = Release(i)
    /\ UNCHANGED <<pc, cmd, camera_entities, excluded, saved, op_result, dir,
                   barrier_n, arrived, threads, files, clock, ts_reads>>
    /\ UNCHANGED mainVars
    /\ UNCHANGED unitVars
    /\ UNCHANGED runVars
    /\ UNCHANGED mmVars

\* A cleanup that removes the output of every worker of the batch.
AllWorkerPaths == {Path(workers[k]) : k \in DOMAIN workers}

\* record_video's result loop: the output paths of the workers that returned
\* Err or panicked, which are removed if they exist.
FailedPaths ==
    {Path(workers[k]) : k \in {j \in DOMAIN workers : workers[j].res # "ok"}}

\* join_all(tasks).await and the result loop: Ok(Ok(path)) is kept; for
\* Ok(Err) and for a panic the error is logged and, in record_video, the
\* worker's output file is removed if it exists. The call returns Ok(paths).
MmJoin ==
    /\ pc = "mm_join"
    /\ AllDone
    /\ saved' = OkPaths
    /\ files' = IF IsRecord THEN files \ FailedPaths ELSE files
    /\ mm_result' = "Ok"
    /\ pc' = "mm_returned"
    /\ UNCHANGED <<cmd, camera_entities, excluded, op_result, dir, cameras_info,
                   init_results, captures, mapLock, camera_names_ordered, paths,
                   num_frames>>
    /\ UNCHANGED <<barrier_n, arrived, workers, capLock, threads, clock, ts_reads>>
    /\ UNCHANGED mainVars
    /\ UNCHANGED unitVars
    /\ UNCHANGED runVars

\* ------------------------------------------------------------------ system
Next ==
    \/ MainSetup
    \/ Dispatch
    \/ MainExit
    \/ CaptureImageCli
    \/ CaptureImageJoin
    \/ RecordVideoCli
    \/ RecordVideoReturn
    \/ VerifyTimesCli
    \/ LibCaptureImage
    \/ MmEnter
    \/ MmPlan
    \/ FormatPath
    \/ SpawnRecord
    \/ MmJoin
    \/ \E i \in DOMAIN init_results : InitLock(i)
    \/ \E i \in DOMAIN init_results : InitOpen(i)
    \/ \E i \in DOMAIN workers : TaskBarrierWait(i)
    \/ \E i \in DOMAIN workers : TaskSend(i)
    \/ \E i \in DOMAIN workers : TaskFinish(i)
    \/ \E i \in DOMAIN workers : BlockingBarrierWait(i)
    \/ \E i \in DOMAIN workers : LockCapture(i)
    \/ \E i \in DOMAIN workers : ImageRead(i)
    \/ \E i \in DOMAIN workers : ImageWrite(i)
    \/ \E i \in DOMAIN workers : RecordSetup(i)
    \/ \E i \in DOMAIN workers : RecordFrame(i)
    \/ \E i \in DOMAIN workers : RecordFinish(i)
    \/ \E i \in DOMAIN workers : WorkerPanic(i)

Spec == Init /\ [][Next]_vars

\* ------------------------------------------------- the record batch alone
\* handle_record_video_cli has resolved distinct cameras that all have a URL,
\* the output directory exists and record_video is being called for a
\* duration of up to MaxLoopFrames frames.
InitRecord ==
    /\ pc = "mm_enter"
    /\ cmd = "capture-video"
    /\ cameras_info \in {s \in SeqsUpTo(Devices, MaxSel) : s # <<>> /\ ~HasDuplicate(s)}
    /\ config = cameras_info
    /\ cameras = Range(cameras_info)
    /\ password = [d \in Devices |-> d \in cameras]
    /\ selector = [all |-> TRUE, names |-> <<>>]
    /\ op_warned = FALSE
    /\ time_results = <<>>
    /\ sync_report = NoReport
    /\ viz = NoViz
    /\ diag = DiagIdle
    /\ rs = RsIdle
    /\ snap = SnapIdle
    /\ codec = CodecIdle
    /\ stamp = StampIdle
    /\ camera_entities = cameras_info
    /\ excluded = <<>>
    /\ init_results = <<>>
    /\ captures = {}
    /\ mapLock = 0
    /\ camera_names_ordered = <<>>
    /\ paths = <<>>
    /\ barrier_n = 0
    /\ arrived = 0
    /\ workers = <<>>
    /\ capLock = [d \in Devices |-> 0]
    /\ num_frames \in 0..MaxLoopFrames
    /\ threads = 1
    /\ dir = "exists"
    /\ files = {}
    /\ clock = 0
    /\ ts_reads = 0
    /\ saved = <<>>
    /\ mm_result = "none"
    /\ op_result = "none"
    /\ setup_failed = FALSE
    /\ exit_code = -1

NextRecord ==
    \/ MmEnter
    \/ MmPlan
    \/ FormatPath
    \/ SpawnRecord
    \/ MmJoin
    \/ RecordVideoReturn
    \/ MainExit
    \/ \E i \in DOMAIN init_results : InitLock(i)
    \/ \E i \in DOMAIN init_results : InitOpen(i)
    \/ \E i \in DOMAIN workers : BlockingBarrierWait(i)
    \/ \E i \in DOMAIN workers : LockCapture(i)
    \/ \E i \in DOMAIN workers : RecordSetup(i)
    \/ \E i \in DOMAIN workers : RecordFrame(i)
    \/ \E i \in DOMAIN workers : RecordFinish(i)
    \/ \E i \in DOMAIN workers : WorkerPanic(i)

SpecRecord == InitRecord /\ [][NextRecord]_vars

\* ------------------------------------------------------ verify-times alone
\* main has loaded a configuration of up to three cameras and dispatches
\* verify-times.
TimeDevices == Devices \cup {"cam_c"}

TimeConfigs == {<<"cam_a">>, <<"cam_a", "cam_b">>, <<"cam_a", "cam_b", "cam_c">>}

InitVerify ==
    /\ pc = "verify-times"
    /\ cmd = "verify-times"
    /\ config \in TimeConfigs
    /\ cameras = Range(config)
    /\ password = [d \in Devices |-> TRUE]
    /\ selector = [all |-> TRUE, names |-> <<>>]
    /\ op_warned = FALSE
    /\ time_results = <<>>
    /\ sync_report = NoReport
    /\ viz = NoViz
    /\ diag = DiagIdle
    /\ rs = RsIdle
    /\ snap = SnapIdle
    /\ codec = CodecIdle
    /\ stamp = StampIdle
    /\ camera_entities = <<>>
    /\ excluded = <<>>
    /\ cameras_info = <<>>
    /\ init_results = <<>>
    /\ captures = {}
    /\ mapLock = 0
    /\ camera_names_ordered = <<>>
    /\ paths = <<>>
    /\ barrier_n = 0
    /\ arrived = 0
    /\ workers = <<>>
    /\ capLock = [d \in Devices |-> 0]
    /\ num_frames = 0
    /\ threads = 1
    /\ dir = "absent"
    /\ files = {}
    /\ clock = 0
    /\ ts_reads = 0
    /\ saved = <<>>
    /\ mm_result = "none"
    /\ op_result = "none"
    /\ setup_failed = FALSE
    /\ exit_code = -1

NextVerify == VerifyTimesCli

SpecVerify == InitVerify /\ [][NextVerify]_vars

\* ------------------------------- RealsenseDevice::capture_image_internal
\* The closure returns Err(why) from where it stands.
RsFail(why) == [rs EXCEPT !.pc = "closure_done", !.res = why]

\* capture_image_internal is called for a device configured with or without
\* a serial number and with each of its two streams enabled or disabled.
InitDepth ==
    /\ pc = "main"
    /\ cmd = "none"
    /\ cameras = {}
    /\ password = [d \in Devices |-> FALSE]
    /\ camera_entities = <<>>
    /\ excluded = <<>>
    /\ cameras_info = <<>>
    /\ init_results = <<>>
    /\ captures = {}
    /\ mapLock = 0
    /\ camera_names_ordered = <<>>
    /\ paths = <<>>
    /\ barrier_n = 0
    /\ arrived = 0
    /\ workers = <<>>
    /\ capLock = [d \in Devices |-> 0]
    /\ num_frames = 0
    /\ threads = 1
    /\ dir = "exists"
    /\ files = {}
    /\ clock = 0
    /\ ts_reads = 0
    /\ saved = <<>>
    /\ mm_result = "none"
    /\ op_result = "none"
    /\ setup_failed = FALSE
    /\ exit_code = -1
    /\ config = <<>>
    /\ selector = [all |-> TRUE, names |-> <<>>]
    /\ op_warned = FALSE
    /\ time_results = <<>>
    /\ sync_report = NoReport
    /\ viz = NoViz
    /\ diag = DiagIdle
    /\ snap = SnapIdle
    /\ codec = CodecIdle
    /\ stamp = StampIdle
    /\ \E sn, c, d \in BOOLEAN :
         rs = [RsIdle EXCEPT !.pc = "start", !.serial = sn,
                             !.color_on = c, !.depth_on = d]

\* RsContext::new, query_devices and the choice of the device: by serial
\* number when one is configured, else the first of the list.
RsDiscover ==
    /\ rs.pc = "start"
    /\ \E o \in {"context", "no_device", "serial_not_found", "serial_unreadable", "found"} :
         /\ o = "serial_not_found" => rs.serial
         /\ rs' = IF o = "found" THEN [rs EXCEPT !.pc = "configure"] ELSE RsFail(o)
    /\ UNCHANGED progVars
    /\ UNCHANGED <<snap, codec, stamp, diag>>

\* The inactive pipeline and its configuration: the enabled streams are
\* requested; with both streams disabled the closure returns an error.
RsConfigure ==
    /\ rs.pc = "configure"
    /\ \E o \in {"pipeline", "config", "ok"} :
         rs' = IF o # "ok" THEN RsFail(o)
               ELSE IF ~rs.color_on /\ ~rs.depth_on THEN RsFail("streams_disabled")
               ELSE [rs EXCEPT !.pc = "starting"]
    /\ UNCHANGED progVars
    /\ UNCHANGED <<snap, codec, stamp, diag>>

\* inactive_pipeline.start(..)?; active_pipeline_opt = Some(active_pipeline).
RsStart ==
    /\ rs.pc = "starting"
    /\ \E ok \in BOOLEAN :
         rs' = IF ok THEN [rs EXCEPT !.pc = "wait", !.pipeline = "active"]
               ELSE RsFail("start")
    /\ UNCHANGED progVars
    /\ UNCHANGED <<snap, codec, stamp, diag>>

\* pipeline_ref.wait(Some(5 s)): a frameset or a timeout.
RsWait ==
    /\ rs.pc = "wait"
    /\ \E ok \in BOOLEAN :
         rs' = IF ok THEN [rs EXCEPT !.pc = "color"] ELSE RsFail("wait")
    /\ UNCHANGED progVars
    /\ UNCHANGED <<snap, codec, stamp, diag>>

\* The colour frame, when the stream is enabled: no frame in the frameset
\* (warn), a pixel size other than 3 bytes, a failed save, or the PNG saved.
RsColor ==
    /\ rs.pc = "color"
    /\ IF ~rs.color_on
       THEN rs' = [rs EXCEPT !.pc = "depth"]
       ELSE \E o \in {"absent", "bpp", "save", "saved"} :
              rs' = IF o \in {"bpp", "save"} THEN RsFail(o)
                    ELSE [rs EXCEPT !.pc = "depth", !.color = (o = "saved")]
    /\ UNCHANGED progVars
    /\ UNCHANGED <<snap, codec, stamp, diag>>

\* A closing test that lets a bundle without frames through.
NoDataIgnored(color, depth, color_on, depth_on) == FALSE

\* processed_color_data.is_none() && processed_depth_data.is_none() &&
\* (color_stream_actually_enabled || depth_stream_actually_enabled)
NoEnabledStreamData(color, depth, color_on, depth_on) ==
    ~color /\ ~depth /\ (color_on \/ depth_on)

\* The depth frame, when the stream is enabled, then the closing test: an
\* error when no enabled stream gave data, else Ok(FrameDataBundle).
RsDepth ==
    /\ rs.pc = "depth"
    /\ \E o \in {"absent", "units", "bpp", "buffer", "save", "saved"} :
         /\ ~rs.depth_on => o = "absent"
         /\ rs' = IF o \in {"units", "bpp", "buffer", "save"} THEN RsFail(o)
                  ELSE IF NoEnabledStreamData(rs.color, o = "saved", rs.color_on,
                                              rs.depth_on)
                  THEN RsFail("no_data")
                  ELSE [rs EXCEPT !.pc = "closure_done", !.res = "Ok",
                                  !.depth = (o = "saved")]
    /\ UNCHANGED progVars
    /\ UNCHANGED <<snap, codec, stamp, diag>>

\* A clean-up that stops the pipeline only after a successful capture.
StopOnSuccess(r) ==
    IF r.pipeline = "active" /\ r.res = "Ok" THEN "stopped" ELSE r.pipeline

\* if let Some(pipeline_to_stop) = active_pipeline_opt.take() { .stop() }
StopPipeline(r) == IF r.pipeline = "active" THEN "stopped" ELSE r.pipeline

\* After the closure, whatever it returned: the pipeline is stopped when it
\* was started, and the closure's result is the result of the snapshot.
RsFinish ==
    /\ rs.pc = "closure_done"
    /\ rs' = [rs EXCEPT !.pc = "returned", !.pipeline = StopPipeline(rs)]
    /\ UNCHANGED progVars
    /\ UNCHANGED <<snap, codec, stamp, diag>>

NextDepth ==
    \/ RsDiscover
    \/ RsConfigure
    \/ RsStart
    \/ RsWait
    \/ RsColor
    \/ RsDepth
    \/ RsFinish

SpecDepth == InitDepth /\ [][NextDepth]_vars

\* ------------------------------------- IpCameraDevice::capture_image
\* What the request and the file system can answer: the request is sent or
\* fails, the status, the body is read or not, its length, File::create and
\* write_all succeed or fail.
Responses ==
    [sent : BOOLEAN, status : {200, 204, 301, 401, 404, 500}, body_ok : BOOLEAN,
     len : 0..MaxBody, create_ok : BOOLEAN, write_ok : BOOLEAN]

\* StatusCode::is_success
is_success(status) == status >= 200 /\ status < 300

\* capture_image: send_with_digest_auth, the status test, response.bytes(),
\* File::create and write_all of whatever bytes arrived.
IpSnapshot(r) ==
    IF ~r.sent THEN [res |-> "send", file |-> "none", bytes |-> 0]
    ELSE IF ~is_success(r.status) THEN [res |-> "status", file |-> "none", bytes |-> 0]
    ELSE IF ~r.body_ok THEN [res |-> "bytes", file |-> "none", bytes |-> 0]
    ELSE IF ~r.create_ok THEN [res |-> "create", file |-> "none", bytes |-> 0]
    ELSE IF ~r.write_ok THEN [res |-> "write", file |-> "created", bytes |-> 0]
    ELSE [res |-> "Ok", file |-> "created", bytes |-> r.len]

InitSnapshot ==
    /\ pc = "main"
    /\ cmd = "none"
    /\ cameras = {}
    /\ password = [d \in Devices |-> FALSE]
    /\ camera_entities = <<>>
    /\ excluded = <<>>
    /\ cameras_info = <<>>
    /\ init_results = <<>>
    /\ captures = {}
    /\ mapLock = 0
    /\ camera_names_ordered = <<>>
    /\ paths = <<>>
    /\ barrier_n = 0
    /\ arrived = 0
    /\ workers = <<>>
    /\ capLock = [d \in Devices |-> 0]
    /\ num_frames = 0
    /\ threads = 1
    /\ dir = "exists"
    /\ files = {}
    /\ clock = 0
    /\ ts_reads = 0
    /\ saved = <<>>
    /\ mm_result = "none"
    /\ op_result = "none"
    /\ setup_failed = FALSE
    /\ exit_code = -1
    /\ config = <<>>
    /\ selector = [all |-> TRUE, names |-> <<>>]
    /\ op_warned = FALSE
    /\ time_results = <<>>
    /\ sync_report = NoReport
    /\ viz = NoViz
    /\ diag = DiagIdle
    /\ rs = RsIdle
    /\ codec = CodecIdle
    /\ stamp = StampIdle
    /\ \E r \in Responses : snap = [SnapIdle EXCEPT !.pc = "request", !.resp = r]

\* One call of capture_image for the response drawn.
SnapshotCall ==
    /\ snap.pc = "request"
    /\ snap' = [snap EXCEPT !.pc = "returned", !.out = IpSnapshot(snap.resp)]
    /\ UNCHANGED progVars
    /\ UNCHANGED <<rs, codec, stamp, diag>>

NextSnapshot == SnapshotCall

SpecSnapshot == InitSnapshot /\ [][NextSnapshot]_vars

\* --------------------------------------------- record_video: the FourCC
\* Strings are sequences of characters, so that letter case is real.
LowerLetters ==
    <<"a", "b", "c", "d", "e", "f", "g", "h", "i", "j", "k", "l", "m",
      "n", "o", "p", "q", "r", "s", "t", "u", "v", "w", "x", "y", "z">>

UpperLetters ==
    <<"A", "B", "C", "D", "E", "F", "G", "H", "I", "J", "K", "L", "M",
      "N", "O", "P", "Q", "R", "S", "T", "U", "V", "W", "X", "Y", "Z">>

\* char::to_lowercase / to_uppercase on ASCII.
LowerChar(c) ==
    IF \E i \in DOMAIN UpperLetters : UpperLetters[i] = c
    THEN LowerLetters[CHOOSE i \in DOMAIN UpperLetters : UpperLetters[i] = c]
    ELSE c

UpperChar(c) ==
    IF \E i \in DOMAIN LowerLetters : LowerLetters[i] = c
    THEN UpperLetters[CHOOSE i \in DOMAIN LowerLetters : LowerLetters[i] = c]
    ELSE c

\* str::to_lowercase
to_lowercase(str) == [i \in DOMAIN str |-> LowerChar(str[i])]

\* Every spelling of a word in upper and lower case letters.
Spellings(word) ==
    {[i \in DOMAIN word |-> IF i \in U THEN UpperChar(word[i]) ELSE word[i]] :
        U \in SUBSET DOMAIN word}

\* application.video_codec and application.video_format as configured.
VideoCodecs ==
    UNION {Spellings(w) :
            w \in {<<"m", "j", "p", "g">>, <<"m", "j", "p", "e", "g">>,
                   <<"x", "v", "i", "d">>, <<"m", "p", "4", "v">>,
                   <<"h", "2", "6", "4">>, <<"h", "2", "6", "5">>,
                   <<"c", "o", "p", "y">>, <<>>}}

VideoFormats ==
    UNION {Spellings(w) :
            w \in {<<"a", "v", "i">>, <<"m", "p", "4">>, <<"m", "k", "v">>}}

\* A match on the configured strings as they are written.
fourcc_exact(video_codec, video_format) ==
    LET c == video_codec
        f == video_format
    IN IF c \in {<<"m", "j", "p", "g">>, <<"m", "j", "p", "e", "g">>}
       THEN [fourcc |-> "MJPG", warned |-> FALSE]
       ELSE IF c = <<"x", "v", "i", "d">> THEN [fourcc |-> "XVID", warned |-> FALSE]
       ELSE IF c = <<"m", "p", "4", "v">> THEN [fourcc |-> "MP4V", warned |-> FALSE]
       ELSE IF c = <<"h", "2", "6", "4">> /\ f = <<"a", "v", "i">>
       THEN [fourcc |-> "H264", warned |-> FALSE]
       ELSE IF c = <<"h", "2", "6", "4">> /\ f = <<"m", "p", "4">>
       THEN [fourcc |-> "avc1", warned |-> FALSE]
       ELSE [fourcc |-> "MJPG", warned |-> TRUE]

\* let fourcc_str = match video_codec.to_lowercase().as_str() { .. }: the arms
\* in their order, the two h264 arms guarded by the lower-cased video_format,
\* the last arm warns and defaults to MJPG.
fourcc_str(video_codec, video_format) ==
    LET c == to_lowercase(video_codec)
        f == to_lowercase(video_format)
    IN IF c \in {<<"m", "j", "p", "g">>, <<"m", "j", "p", "e", "g">>}
       THEN [fourcc |-> "MJPG", warned |-> FALSE]
       ELSE IF c = <<"x", "v", "i", "d">> THEN [fourcc |-> "XVID", warned |-> FALSE]
       ELSE IF c = <<"m", "p", "4", "v">> THEN [fourcc |-> "MP4V", warned |-> FALSE]
       ELSE IF c = <<"h", "2", "6", "4">> /\ f = <<"a", "v", "i">>
       THEN [fourcc |-> "H264", warned |-> FALSE]
       ELSE IF c = <<"h", "2", "6", "4">> /\ f = <<"m", "p", "4">>
       THEN [fourcc |-> "avc1", warned |-> FALSE]
       ELSE [fourcc |-> "MJPG", warned |-> TRUE]

InitCodec ==
    /\ pc = "main"
    /\ cmd = "none"
    /\ cameras = {}
    /\ password = [d \in Devices |-> FALSE]
    /\ camera_entities = <<>>
    /\ excluded = <<>>
    /\ cameras_info = <<>>
    /\ init_results = <<>>
    /\ captures = {}
    /\ mapLock = 0
    /\ camera_names_ordered = <<>>
    /\ paths = <<>>
    /\ barrier_n = 0
    /\ arrived = 0
    /\ workers = <<>>
    /\ capLock = [d \in Devices |-> 0]
    /\ num_frames = 0
    /\ threads = 1
    /\ dir = "exists"
    /\ files = {}
    /\ clock = 0
    /\ ts_reads = 0
    /\ saved = <<>>
    /\ mm_result = "none"
    /\ op_result = "none"
    /\ setup_failed = FALSE
    /\ exit_code = -1
    /\ config = <<>>
    /\ selector = [all |-> TRUE, names |-> <<>>]
    /\ op_warned = FALSE
    /\ time_results = <<>>
    /\ sync_report = NoReport
    /\ viz = NoViz
    /\ diag = DiagIdle
    /\ rs = RsIdle
    /\ snap = SnapIdle
    /\ stamp = StampIdle
    /\ \E c \in VideoCodecs, f \in VideoFormats :
         codec = [CodecIdle EXCEPT !.pc = "choose", !.video_codec = c,
                                   !.video_format = f]

\* The worker reaches the match and builds the writer with its result.
ChooseFourcc ==
    /\ codec.pc = "choose"
    /\ codec' = [codec EXCEPT !.pc = "chosen",
                              !.out = fourcc_str(codec.video_codec, codec.video_format)]
    /\ UNCHANGED progVars
    /\ UNCHANGED <<rs, snap, stamp, diag>>

NextCodec == ChooseFourcc

SpecCodec == InitCodec /\ [][NextCodec]_vars

\* --------------------------------- CameraController::get_camera_time
\* A response body is a sequence of lexemes: a date "2024-03-10", a time of
\* day "15:45:30", a blank, the letters T and Z, a numeric offset, "=", a
\* quote, ";" and a word.
FormatPlain == <<"2024-03-10", " ", "15:45:30">>
FormatIsoZ == <<"2024-03-10", "T", "15:45:30", "Z">>
FormatIsoOffset == <<"2024-03-10", "T", "15:45:30", "+0000">>
FormatPlainOffset == <<"2024-03-10", " ", "15:45:30", "+0000">>

Bodies ==
    {pre \o ts \o post :
        pre \in {<<>>, <<" ">>, <<"'">>, <<"CurrentTime", "=">>,
                 <<"CurrentTime", "=", "'">>, <<"CurrentTime", " ">>},
        ts \in {FormatPlain, FormatIsoZ, FormatIsoOffset, FormatPlainOffset,
                <<"2024-03-10">>, <<"CurrentTime">>, <<>>},
        post \in {<<>>, <<" ">>, <<"'">>, <<"'", ";">>, <<";">>}}

RECURSIVE TrimStart(_)
TrimStart(str) ==
    IF str # <<>> /\ Head(str) = " " THEN TrimStart(Tail(str)) ELSE str

RECURSIVE TrimEnd(_)
TrimEnd(str) ==
    IF str # <<>> /\ str[Len(str)] = " "
    THEN TrimEnd(SubSeq(str, 1, Len(str) - 1)) ELSE str

\* body.trim().replace("'", "").replace("\"", "")
cleaned_body(body) == SelectSeq(TrimEnd(TrimStart(body)), LAMBDA c : c # "'")

\* str::split_whitespace: the non-empty runs between blanks, in order.
RECURSIVE split_whitespace(_)
split_whitespace(str) ==
    LET t == TrimStart(str) IN
    IF t = <<>> THEN <<>>
    ELSE LET stop == IF \E i \in DOMAIN t : t[i] = " "
                     THEN (CHOOSE i \in DOMAIN t :
                              t[i] = " " /\ \A j \in 1..(i - 1) : t[j] # " ") - 1
                     ELSE Len(t)
         IN <<SubSeq(t, 1, stop)>> \o split_whitespace(SubSeq(t, stop + 1, Len(t)))

\* NaiveDateTime::parse_from_str(s, "%Y-%m-%d %H:%M:%S").is_ok(): a date, any
\* number of blanks, a time of day, and nothing else.
ParsesPlain(str) ==
    /\ Len(str) >= 2
    /\ str[1] = "2024-03-10"
    /\ str[Len(str)] = "15:45:30"
    /\ \A i \in 2..(Len(str) - 1) : str[i] = " "

\* NaiveDateTime::parse_from_str(s, "%Y-%m-%dT%H:%M:%SZ").is_ok()
ParsesIsoZ(str) == str = FormatIsoZ

\* trim_matches(|c| c == '\'' || c == '"' || c == ';')
RECURSIVE trim_matches(_)
trim_matches(str) ==
    IF str # <<>> /\ Head(str) \in {"'", ";"} THEN trim_matches(Tail(str))
    ELSE IF str # <<>> /\ str[Len(str)] \in {"'", ";"}
    THEN trim_matches(SubSeq(str, 1, Len(str) - 1))
    ELSE str

\* The parsing of the body: a whitespace-separated token or the whole cleaned
\* body in the plain format; failing that, the text after the first "=" in
\* the ISO-Z or the plain format; else the error "Could not find or parse".
parse_time(body) ==
    LET cleaned == cleaned_body(body)
        tokens == split_whitespace(cleaned)
    IN IF \E k \in DOMAIN tokens : ParsesPlain(tokens[k]) THEN "Ok"
       ELSE IF ParsesPlain(cleaned) THEN "Ok"
       ELSE IF \E i \in DOMAIN cleaned : cleaned[i] = "="
       THEN LET start_idx == CHOOSE i \in DOMAIN cleaned :
                                cleaned[i] = "=" /\ \A j \in 1..(i - 1) : cleaned[j] # "="
                part == trim_matches(SubSeq(cleaned, start_idx + 1, Len(cleaned)))
            IN IF ParsesIsoZ(part) \/ ParsesPlain(part) THEN "Ok" ELSE "Err"
       ELSE "Err"

\* get_camera_time once the response is there: the status test, then the body.
get_camera_time(status, body) ==
    IF ~is_success(status) THEN "Err" ELSE parse_time(body)

InitStamp ==
    /\ pc = "main"
    /\ cmd = "none"
    /\ cameras = {}
    /\ password = [d \in Devices |-> FALSE]
    /\ camera_entities = <<>>
    /\ excluded = <<>>
    /\ cameras_info = <<>>
    /\ init_results = <<>>
    /\ captures = {}
    /\ mapLock = 0
    /\ camera_names_ordered = <<>>
    /\ paths = <<>>
    /\ barrier_n = 0
    /\ arrived = 0
    /\ workers = <<>>
    /\ capLock = [d \in Devices |-> 0]
    /\ num_frames = 0
    /\ threads = 1
    /\ dir = "exists"
    /\ files = {}
    /\ clock = 0
    /\ ts_reads = 0
    /\ saved = <<>>
    /\ mm_result = "none"
    /\ op_result = "none"
    /\ setup_failed = FALSE
    /\ exit_code = -1
    /\ config = <<>>
    /\ selector = [all |-> TRUE, names |-> <<>>]
    /\ op_warned = FALSE
    /\ time_results = <<>>
    /\ sync_report = NoReport
    /\ viz = NoViz
    /\ diag = DiagIdle
    /\ rs = RsIdle
    /\ snap = SnapIdle
    /\ codec = CodecIdle
    /\ \E st \in {200, 204, 401, 500}, b \in Bodies, n \in 1..2 :
         /\ st = 401 => n = 2
         /\ stamp = [StampIdle EXCEPT !.pc = "response", !.status = st, !.body = b,
                                      !.requests = n,
                                      !.first = IF n = 2 THEN 401 ELSE st]

\* The response is handled and get_camera_time returns.
TimeResponse ==
    /\ stamp.pc = "response"
    /\ stamp' = [stamp EXCEPT !.pc = "returned",
                              !.out = get_camera_time(stamp.status, stamp.body)]
    /\ UNCHANGED progVars
    /\ UNCHANGED <<rs, snap, codec, diag>>

NextStamp == TimeResponse

SpecStamp == InitStamp /\ [][NextStamp]_vars

\* ------------------------------------------- the requests of get_camera_time
\* A retry on every response that is not a success.
RetryOnAnyFailure(status) == ~is_success(status)

\* response.status() == StatusCode::UNAUTHORIZED: the only case of a second
\* request.
NeedsRetry(status) == status = 401

\* What a request can bring: a transport error or a response.
QueryResponses ==
    {[kind |-> "transport", status |-> 0, body |-> <<>>]}
      \cup {[kind |-> "response", status |-> st, body |-> b] :
               st \in {200, 204, 401, 500}, b \in Bodies}

\* get_camera_time is called for one camera.
InitQuery ==
    /\ pc = "main"
    /\ cmd = "none"
    /\ cameras = {}
    /\ password = [d \in Devices |-> FALSE]
    /\ camera_entities = <<>>
    /\ excluded = <<>>
    /\ cameras_info = <<>>
    /\ init_results = <<>>
    /\ captures = {}
    /\ mapLock = 0
    /\ camera_names_ordered = <<>>
    /\ paths = <<>>
    /\ barrier_n = 0
    /\ arrived = 0
    /\ workers = <<>>
    /\ capLock = [d \in Devices |-> 0]
    /\ num_frames = 0
    /\ threads = 1
    /\ dir = "exists"
    /\ files = {}
    /\ clock = 0
    /\ ts_reads = 0
    /\ saved = <<>>
    /\ mm_result = "none"
    /\ op_result = "none"
    /\ setup_failed = FALSE
    /\ exit_code = -1
    /\ config = <<>>
    /\ selector = [all |-> TRUE, names |-> <<>>]
    /\ op_warned = FALSE
    /\ time_results = <<>>
    /\ sync_report = NoReport
    /\ viz = NoViz
    /\ diag = DiagIdle
    /\ rs = RsIdle
    /\ snap = SnapIdle
    /\ codec = CodecIdle
    /\ stamp = [StampIdle EXCEPT !.pc = "start"]

\* The password lookup (`?` on None leaves without a request), then the first
\* GET with basic authentication is sent.
QuerySend ==
    /\ stamp.pc = "start"
    /\ \E has_password \in BOOLEAN :
         stamp' = IF has_password
                  THEN [stamp EXCEPT !.pc = "sent", !.requests = 1]
                  ELSE [stamp EXCEPT !.pc = "returned", !.out = "Err"]
    /\ UNCHANGED progVars
    /\ UNCHANGED <<rs, snap, codec, diag>>

\* The first request completes: a transport error returns Err, a 401 sends the
\* second GET, every other response goes to the status test and the parsing.
QueryFirst ==
    /\ stamp.pc = "sent"
    /\ \E r \in QueryResponses :
         stamp' = IF r.kind = "transport"
                  THEN [stamp EXCEPT !.pc = "returned", !.out = "Err"]
                  ELSE IF NeedsRetry(r.status)
                  THEN [stamp EXCEPT !.pc = "resent", !.first = r.status,
                                     !.requests = @ + 1]
                  ELSE [stamp EXCEPT !.pc = "response", !.first = r.status,
                                     !.status = r.status, !.body = r.body]
    /\ UNCHANGED progVars
    /\ UNCHANGED <<rs, snap, codec, diag>>

\* The second request completes: a transport error returns Err, any response
\* goes to the status test and the parsing, with no further request.
QueryRetry ==
    /\ stamp.pc = "resent"
    /\ \E r \in QueryResponses :
         stamp' = IF r.kind = "transport"
                  THEN [stamp EXCEPT !.pc = "returned", !.out = "Err"]
                  ELSE [stamp EXCEPT !.pc = "response", !.status = r.status,
                                     !.body = r.body]
    /\ UNCHANGED progVars
    /\ UNCHANGED <<rs, snap, codec, diag>>

NextQuery ==
    \/ QuerySend
    \/ QueryFirst
    \/ QueryRetry
    \/ TimeResponse

SpecQuery == InitQuery /\ [][NextQuery]_vars

\* --------------------------------------- handle_capture_image_cli alone
\* main has registered one or two cameras that all have a password and
\* dispatches capture-image without --cameras.
InitImage ==
    /\ pc = "capture-image"
    /\ cmd = "capture-image"
    /\ config \in {c \in SeqsUpTo(Devices, Cardinality(Devices)) :
                     c # <<>> /\ ~HasDuplicate(c)}
    /\ cameras = Range(config)
    /\ password = [d \in Devices |-> d \in cameras]
    /\ selector = [all |-> TRUE, names |-> <<>>]
    /\ op_warned = FALSE
    /\ time_results = <<>>
    /\ sync_report = NoReport
    /\ viz = NoViz
    /\ diag = DiagIdle
    /\ rs = RsIdle
    /\ snap = SnapIdle
    /\ codec = CodecIdle
    /\ stamp = StampIdle
    /\ camera_entities = <<>>
    /\ excluded = <<>>
    /\ cameras_info = <<>>
    /\ init_results = <<>>
    /\ captures = {}
    /\ mapLock = 0
    /\ camera_names_ordered = <<>>
    /\ paths = <<>>
    /\ barrier_n = 0
    /\ arrived = 0
    /\ workers = <<>>
    /\ capLock = [d \in Devices |-> 0]
    /\ num_frames = 0
    /\ threads = 1
    /\ dir = "absent"
    /\ files = {}
    /\ clock = 0
    /\ ts_reads = 0
    /\ saved = <<>>
    /\ mm_result = "none"
    /\ op_result = "none"
    /\ setup_failed = FALSE
    /\ exit_code = -1

NextImage ==
    \/ CaptureImageCli
    \/ CaptureImageJoin
    \/ MainExit
    \/ \E i \in DOMAIN workers : TaskBarrierWait(i)
    \/ \E i \in DOMAIN workers : TaskSend(i)
    \/ \E i \in DOMAIN workers : TaskFinish(i)
    \/ \E i \in DOMAIN workers : WorkerPanic(i)

\* The runtime keeps running what can run: a step that stays possible is
\* eventually taken.
SpecImage == InitImage /\ [][NextImage]_vars /\ WF_vars(NextImage)

\* ------------------------------------------- stream handles of one manager
\* A media manager that may already hold handles from earlier calls is asked
\* for a batch of names, repeated names included.
InitCapture ==
    /\ pc = "mm_enter"
    /\ cmd = "lib-capture-image"
    /\ cameras_info \in SeqsUpTo(Devices, MaxSel)
    /\ captures \in SUBSET Devices
    /\ config = <<>>
    /\ cameras = {}
    /\ password = [d \in Devices |-> FALSE]
    /\ selector = [all |-> TRUE, names |-> <<>>]
    /\ op_warned = FALSE
    /\ time_results = <<>>
    /\ sync_report = NoReport
    /\ viz = NoViz
    /\ diag = DiagIdle
    /\ rs = RsIdle
    /\ snap = SnapIdle
    /\ codec = CodecIdle
    /\ stamp = StampIdle
    /\ camera_entities = <<>>
    /\ excluded = <<>>
    /\ init_results = <<>>
    /\ mapLock = 0
    /\ camera_names_ordered = <<>>
    /\ paths = <<>>
    /\ barrier_n = 0
    /\ arrived = 0
    /\ workers = <<>>
    /\ capLock = [d \in Devices |-> 0]
    /\ num_frames = 0
    /\ threads = 1
    /\ dir \in {"absent", "exists"}
    /\ files = {}
    /\ clock = 0
    /\ ts_reads = 0
    /\ saved = <<>>
    /\ mm_result = "none"
    /\ op_result = "none"
    /\ setup_failed = FALSE
    /\ exit_code = -1

NextCapture ==
    \/ MmEnter
    \/ MmPlan
    \/ \E i \in DOMAIN init_results : InitLock(i)
    \/ \E i \in DOMAIN init_results : InitOpen(i)

SpecCapture == InitCapture /\ [][NextCapture]_vars

\* ------------------------------------------------- the diagnostic suite
\* main has loaded a configuration of up to two cameras and dispatches test.
InitDiagnostic ==
    /\ pc = "test"
    /\ cmd = "test"
    /\ config \in {s \in SeqsUpTo(Devices, Cardinality(Devices)) : ~HasDuplicate(s)}
    /\ cameras = Range(config)
    /\ password = [d \in Devices |-> TRUE]
    /\ selector = [all |-> TRUE, names |-> <<>>]
    /\ op_warned = FALSE
    /\ time_results = <<>>
    /\ sync_report = NoReport
    /\ viz = NoViz
    /\ diag = DiagIdle
    /\ rs = RsIdle
    /\ snap = SnapIdle
    /\ codec = CodecIdle
    /\ stamp = StampIdle
    /\ camera_entities = <<>>
    /\ excluded = <<>>
    /\ cameras_info = <<>>
    /\ init_results = <<>>
    /\ captures = {}
    /\ mapLock = 0
    /\ camera_names_ordered = <<>>
    /\ paths = <<>>
    /\ barrier_n = 0
    /\ arrived = 0
    /\ workers = <<>>
    /\ capLock = [d \in Devices |-> 0]
    /\ num_frames = 0
    /\ threads = 1
    /\ dir \in {"absent", "exists"}
    /\ files = {}
    /\ clock = 0
    /\ ts_reads = 0
    /\ saved = <<>>
    /\ mm_result = "none"
    /\ op_result = "none"
    /\ setup_failed = FALSE
    /\ exit_code = -1

NextDiagnostic ==
    \/ DiagnosticCli
    \/ MainExit

SpecDiagnostic == InitDiagnostic /\ [][NextDiagnostic]_vars

\* ------------------------------------------------------------------ claims
\* The batch has returned to its caller (handler or library user).
BatchReturned ==
    /\ workers # <<>>
    /\ pc \in {"op_returned", "mm_returned", "exited"}

OkWorkers == {i \in DOMAIN workers : workers[i].res = "ok"}

\* The worker's device operation (snapshot request, frame read, record) is in
\* progress.
InFlight(w) == w.pc \in {"http", "reading", "setup", "loop"}

PastBarrier(w) == w.pc \notin {"spawned", "barrier"}

\* C1: in every batch no worker performs its first device read before every
\* worker of the batch has arrived at the shutter barrier: while some worker
\* has not yet called wait, no worker is past the barrier.
C1_NoReadBeforeAllArrived ==
    \A i, j \in DOMAIN workers :
        PastBarrier(workers[i]) => workers[j].pc # "spawned"

\* C1 witness: in a batch of two workers one is reading its device.
C1_Witness ==
    /\ Len(workers) >= 2
    /\ \E i \in DOMAIN workers : InFlight(workers[i])

C3_ErrorsIsolated ==
    /\ [](BatchReturned /\ (\A i \in DOMAIN workers : workers[i].res # "panic")
            => /\ AllDone
               /\ "Err" \notin {op_result, mm_result}
               /\ Len(saved) = Cardinality(OkWorkers)
               /\ \A i \in OkWorkers : \E k \in DOMAIN saved : saved[k] = Path(workers[i]))
    /\ [][\A i \in DOMAIN workers :
            (workers[i].res = "none" /\ DOMAIN workers' = DOMAIN workers
               /\ workers'[i].res = "err")
            => \A j \in DOMAIN workers \ {i} : workers'[j] = workers[j]]_vars

\* C3 witness: a returned batch in which one device failed and another one
\* delivered its artifact.
C3_Witness ==
    /\ BatchReturned
    /\ \E i, j \in DOMAIN workers :
         /\ workers[i].res = "err"
         /\ workers[j].res = "ok"
         /\ workers[i].dev # workers[j].dev
         /\ \E k \in DOMAIN saved : saved[k] = Path(workers[j])

\* C4: a panic in one device's worker is an error outcome of that device only:
\* the batch still returns success and keeps the outcomes of the others.
C4_PanicContained ==
    (BatchReturned /\ \E i \in DOMAIN workers : workers[i].res = "panic")
        => /\ "Err" \notin {op_result, mm_result}
           /\ \A i \in OkWorkers : \E k \in DOMAIN saved : saved[k] = Path(workers[i])

\* The selected devices without a password.
NoPassword == {k \in DOMAIN camera_entities : ~password[camera_entities[k]]}

\* The devices the batch went on to acquire from.
Attempted == Range(cameras_info) \cup {workers[i].dev : i \in DOMAIN workers}

\* C5: when several devices are selected and exactly one has no password, only
\* that device gets a credential error, every other selected device is still
\* acquired from, and the operation returns success (the output directory
\* being available).
C5_CredentialErrorPerDevice ==
    (/\ pc = "op_returned"
     /\ cmd \in {"capture-image", "capture-video"}
     /\ dir = "exists"
     /\ Len(camera_entities) >= 2
     /\ Cardinality(NoPassword) = 1)
        => /\ op_result = "Ok"
           /\ \A k \in DOMAIN camera_entities \ NoPassword :
                camera_entities[k] \in Attempted

\* C6: the exit status is non-zero only when configuration loading or registry
\* construction failed; a run that got past setup exits 0.
C6_NonZeroOnlyOnSetupFailure ==
    exit_code \notin {-1, 0} => setup_failed

\* C7: all artifact filenames of a batch carry the same timestamp token, which
\* the batch formats exactly once, whatever the host clock does meanwhile.
C7_SharedTimestamp ==
    BatchReturned
        => /\ ts_reads <= 1
           /\ \A f, g \in files : f.ts = g.ts

\* C8: the number of artifact files a batch leaves on disk equals the number
\* of its successful per-device outcomes.
C8_FilesMatchSuccesses ==
    (BatchReturned /\ AllDone) => Cardinality(files) = Cardinality(OkWorkers)

\* The devices with an entry whose stream initialisation succeeded.
InitOkDevices ==
    {cameras_info[k] : k \in {j \in DOMAIN init_results : init_results[j] = "ok"}}

\* C9: the barrier's party count is the number of devices whose initialisation
\* succeeded, exactly one worker is dispatched per such device, and a device
\* whose initialisation failed gets no worker.
C9_OneWorkerPerSurvivor ==
    pc = "mm_join"
        => /\ barrier_n = Cardinality(InitOkDevices)
           /\ \A d \in InitOkDevices :
                Cardinality({i \in DOMAIN workers : workers[i].dev = d}) = 1
           /\ \A i \in DOMAIN workers : workers[i].dev \in InitOkDevices

\* C10: no worker starts acquisition (barrier wait or frame read) before the
\* initialisation attempt of every targeted device has completed: while a
\* worker exists, no entry is still pending or being opened.
C10_InitBeforeAcquisition ==
    workers # <<>>
        => \A k \in DOMAIN init_results : init_results[k] \notin {"pending", "opening"}

\* C10 witness: a worker is at the barrier or reading after two initialisation
\* attempts, one of which failed.
C10_Witness ==
    /\ Len(init_results) >= 2
    /\ \E k \in DOMAIN init_results : init_results[k] = "err"
    /\ \E i \in DOMAIN workers : workers[i].pc \in {"barrier", "reading", "setup"}

\* C11: after the barrier releases, the first device operation of a worker is
\* the frame grab or the first read of the frame loop: a media-manager worker
\* that is past the barrier and not finished already holds its device's lease
\* and has its stream properties queried and its writer opened.
C11_ReadFirstAfterBarrier ==
    pc = "mm_join"
        => \A i \in DOMAIN workers :
             (PastBarrier(workers[i]) /\ workers[i].pc # "done")
                => /\ capLock[workers[i].dev] = i
                   /\ workers[i].pc # "setup"

\* C12: during record, five consecutive frame-read failures terminate the
\* device's recording with an error: no worker is still in its frame loop
\* (or returning success) with five consecutive failures behind it.
C12_FiveFailuresTerminate ==
    \A i \in DOMAIN workers :
        workers[i].pc = "loop" => workers[i].errs < 5

\* C13: a recording that returns success has written at least
\* round(D * fps) - 5 frames, whatever the pattern of failed reads and empty
\* frames: the step in which a worker returns Ok finds that many frames written.
C13_FramesWritten ==
    [][\A i \in DOMAIN workers :
         (workers[i].pc = "loop" /\ workers'[i].res = "ok")
            => workers[i].written >= num_frames - 5]_vars

\* C14: record with duration 0 reads no frame and writes none, and the
\* device's outcome is a success that is reported with a warning, the created
\* file being left in place.
C14_ZeroDurationWarned ==
    \A i \in DOMAIN workers :
        (/\ pc = "op_returned"
         /\ cmd = "capture-video"
         /\ num_frames = 0
         /\ workers[i].res = "ok")
            => /\ Path(workers[i]) \in files
               /\ op_warned

\* C15: a record output file is removed only for a device whose worker
\* returned an error or panicked: every step that removes a file of a record
\* batch removes a file of a device that has a failed worker.
C15_RemoveOnlyFailed ==
    [][IsRecord =>
         \A f \in files \ files' :
            \E i \in DOMAIN workers' :
               /\ workers'[i].dev = f.name
               /\ workers'[i].res \in {"err", "panic"}]_vars

\* C15 witness: a record batch returned in which a failed device has no file
\* and a device that succeeded with zero frames still has its file.
C15_Witness ==
    /\ pc = "mm_returned"
    /\ IsRecord
    /\ num_frames = 0
    /\ \E i, j \in DOMAIN workers :
         /\ workers[i].res = "ok"
         /\ Path(workers[i]) \in files
         /\ workers[j].res \in {"err", "panic"}
         /\ workers[j].dev # workers[i].dev
         /\ Path(workers[j]) \notin files

RECURSIVE FirstOccurrences(_)
FirstOccurrences(s) ==
    IF s = <<>> THEN <<>>
    ELSE LET front == FirstOccurrences(SubSeq(s, 1, Len(s) - 1)) IN
         IF s[Len(s)] \in Range(front) THEN front ELSE Append(front, s[Len(s)])

\* A handler has resolved its targets from the --cameras argument.
Resolved ==
    /\ cmd \in {"capture-image", "capture-video"}
    /\ pc \notin {"main", "dispatch", "capture-image", "capture-video"}

\* C18: resolve(Names(list)) returns the known names in the order requested
\* with duplicates removed, and skips unknown names.
C18_ResolveNamesDeduplicated ==
    (Resolved /\ ~selector.all)
        => LET expected ==
                 FirstOccurrences(SelectSeq(selector.names, LAMBDA n : n \in cameras))
           IN /\ get_cameras_by_names(selector.names) = expected
              /\ camera_entities = expected

\* C19: resolve(All) returns every registered device exactly once, in the
\* order of insertion into the registry (configuration order).
C19_ResolveAllInsertionOrder ==
    (Resolved /\ selector.all)
        => /\ \A all \in get_all_cameras : all = config
           /\ camera_entities = config

\* C20: verify-times returns success for every combination of per-device
\* results and every drift: the handler's result is Ok and the exit status 0.
C20_VerifyNeverFails ==
    (cmd = "verify-times" /\ pc \in {"op_returned", "exited"})
        => /\ op_result = "Ok"
           /\ pc = "exited" => exit_code = 0

\* C20 witness: verify-times has returned although no device gave its time,
\* one task having panicked and another having failed.
C20_Witness ==
    /\ cmd = "verify-times"
    /\ pc = "exited"
    /\ \A k \in DOMAIN time_results : time_results[k].res # "ok"
    /\ \E k \in DOMAIN time_results : time_results[k].res = "panic"
    /\ \E k \in DOMAIN time_results : time_results[k].res \in {"transport", "parse"}

\* The devices the system check logged as out of sync / in sync, and the pairs
\* of devices the inter-camera check logged as out of sync.
ReportOutOfSync ==
    {sync_report.samples[k].dev : k \in {x \in DOMAIN sync_report.system : sync_report.system[x]}}

ReportInSync ==
    {sync_report.samples[k].dev : k \in {x \in DOMAIN sync_report.system : ~sync_report.system[x]}}

ReportFlaggedPairs ==
    {{sync_report.samples[sync_report.pairs[k].i].dev,
      sync_report.samples[sync_report.pairs[k].j].dev} :
        k \in {x \in DOMAIN sync_report.pairs : sync_report.pairs[x].out}}

\* The scenario of three devices: every device answered, a is one second
\* behind the host, b two and c seven seconds ahead, the tolerance is 5 s.
ThreeDeviceScenario(a, b, c) ==
    /\ sync_report.done
    /\ sync_report.analysed
    /\ sync_report.tolerance = 5
    /\ sync_report.host = 2 * clock
    /\ Len(sync_report.samples) = 3
    /\ {a, b, c} = DOMAIN sync_report.samples
    /\ sync_report.samples[a].time = clock - 1
    /\ sync_report.samples[b].time = clock + 2
    /\ sync_report.samples[c].time = clock + 7

\* C21 (as stated): in the three-device scenario a and b are reported in sync
\* and c out of sync with the host, and the pairs (a,c) and (b,c) are flagged.
C21_AsStated ==
    \A a, b, c \in DOMAIN sync_report.samples :
        ThreeDeviceScenario(a, b, c) =>
            /\ ReportInSync = {sync_report.samples[a].dev, sync_report.samples[b].dev}
            /\ ReportOutOfSync = {sync_report.samples[c].dev}
            /\ ReportFlaggedPairs =
                 {{sync_report.samples[a].dev, sync_report.samples[c].dev},
                  {sync_report.samples[b].dev, sync_report.samples[c].dev}}

\* C21: in the three-device scenario (host T, a = T-1, b = T+2, c = T+7,
\* tolerance 5) a and b are reported in sync and c out of sync with the host,
\* and the inter-camera check flags exactly the pair (a,c): b and c differ by
\* 5 s, which does not exceed the tolerance.
C21_ThreeDeviceScenario ==
    \A a, b, c \in DOMAIN sync_report.samples :
        ThreeDeviceScenario(a, b, c) =>
            /\ ReportInSync = {sync_report.samples[a].dev, sync_report.samples[b].dev}
            /\ ReportOutOfSync = {sync_report.samples[c].dev}
            /\ ReportFlaggedPairs =
                 {{sync_report.samples[a].dev, sync_report.samples[c].dev}}

\* C21 witness: verify-times has analysed the three-device scenario.
C21_Witness ==
    /\ pc = "op_returned"
    /\ cmd = "verify-times"
    /\ \E a, b, c \in DOMAIN sync_report.samples : ThreeDeviceScenario(a, b, c)

\* C22: the inter-camera check runs only when at least two times were
\* obtained; it then compares every unordered pair of the successfully queried
\* devices exactly once (n(n-1)/2 comparisons for n samples); with exactly one
\* sample only the check against the system time is made.
C22_PairwiseOncePerPair ==
    sync_report.done =>
        LET n == Len(sync_report.samples)
            ps == sync_report.pairs
        IN /\ n = Cardinality({k \in DOMAIN time_results : time_results[k].res = "ok"})
           /\ n < 2 => ps = <<>>
           /\ n = 1 => Len(sync_report.system) = 1
           /\ n >= 2 =>
                /\ 2 * Len(ps) = n * (n - 1)
                /\ \A i, j \in 1..n :
                     i # j => Cardinality({k \in DOMAIN ps : {ps[k].i, ps[k].j} = {i, j}}) = 1
                /\ \A k \in DOMAIN ps : ps[k].i # ps[k].j

\* C22 witness: three devices answered and three comparisons were logged.
C22_Witness ==
    /\ pc = "op_returned"
    /\ sync_report.done
    /\ Len(sync_report.samples) = 3
    /\ Len(sync_report.pairs) = 3

\* C23: a device whose adapter does not support the time query ("not
\* applicable") is a skip: it is not counted as an error and it contributes no
\* sample to the system check or to the inter-camera check.
C23_NotApplicableSkipped ==
    sync_report.done =>
        /\ sync_report.errors =
             Cardinality({k \in DOMAIN time_results :
                            time_results[k].res \in {"transport", "parse", "panic"}})
        /\ \A k \in DOMAIN time_results :
             time_results[k].res = "na" =>
                \A x \in DOMAIN sync_report.samples :
                    sync_report.samples[x].dev # time_results[k].dev

\* C24: no blocking worker is started or awaited while a lock on shared state
\* other than the device's own mutex is held: while a stream is being opened
\* on a blocking worker, the lock of the stream-handle map is free.
C24_MapLockFreeDuringOpen ==
    \A i \in DOMAIN init_results :
        init_results[i] = "opening" => mapLock = 0

\* C25: initialisation runs concurrently across the devices of a batch: while
\* one device's open is in progress, the open of the next, different device
\* that waits for its initialisation can start.
C25_OpensConcurrent ==
    \A i, j \in DOMAIN init_results :
        (/\ pc = "mm_init"
         /\ cameras_info[i] # cameras_info[j]
         /\ init_results[i] = "opening"
         /\ init_results[j] = "pending"
         /\ \A k \in 1..(j - 1) : init_results[k] # "pending")
            => ENABLED InitLock(j)

\* One of the two capture handlers has returned with an initialised stream.
VizHandlerReturned ==
    /\ pc \in {"op_returned", "exited"}
    /\ cmd \in {"capture-image", "capture-video"}
    /\ viz.init

\* C26: when the visualization stream was initialised, exactly one blocking
\* flush is issued at the end of the batch, after every emission, on every
\* path by which the handler returns (also with no artifact or no device).
C26_OneFlushOnEveryReturn ==
    VizHandlerReturned =>
        /\ Cardinality({k \in DOMAIN viz.log : viz.log[k].kind = "flush"}) = 1
        /\ viz.log[Len(viz.log)].kind = "flush"

\* The depth snapshot started its pipeline: every step after the start.
RsStarted ==
    \/ rs.pc \in {"wait", "color", "depth"}
    \/ rs.pipeline # "none"

\* C27: in a depth snapshot, whenever the pipeline has been started it is
\* stopped before the snapshot returns, on the success path and on every
\* error path after the start.
C27_PipelineStoppedOnReturn ==
    /\ rs.pc = "returned" => rs.pipeline # "active"
    /\ (rs.pc = "returned" /\ rs.res \in {"Ok", "wait", "bpp", "units", "buffer", "save", "no_data"})
          => rs.pipeline = "stopped"
    /\ (rs.pc # "returned" /\ RsStarted) => rs.pipeline = "active"

\* C27 witness: a snapshot that failed after the start (frame-wait timeout)
\* has returned.
C27_Witness ==
    /\ rs.pc = "returned"
    /\ rs.res = "wait"
    /\ rs.pipeline = "stopped"

\* C28: an IP snapshot reports a failure for the device, and writes no file,
\* when the response has a 2xx status but an empty body.
C28_EmptyBodyIsFailure ==
    (/\ snap.pc = "returned"
     /\ snap.resp.sent
     /\ is_success(snap.resp.status)
     /\ snap.resp.body_ok
     /\ snap.resp.len = 0)
        => (snap.out.res # "Ok" /\ snap.out.file = "none")

\* The string is the word, whatever the case of its letters.
EqIgnoreCase(str, word) ==
    /\ Len(str) = Len(word)
    /\ \A i \in DOMAIN str : str[i] \in {word[i], UpperChar(word[i])}

\* C29: the codec mapping is total and case-insensitive: mjpg/mjpeg -> MJPG,
\* xvid -> XVID, mp4v -> MP4V, h264 with avi -> H264, h264 with mp4 -> avc1,
\* every other input (h264 with another container too) -> MJPG and a warning.
C29_CodecMapping ==
    codec.pc = "chosen" =>
        LET c == codec.video_codec
            f == codec.video_format
            known(w) == EqIgnoreCase(c, w)
        IN /\ codec.out.fourcc \in {"MJPG", "XVID", "MP4V", "H264", "avc1"}
           /\ (known(<<"m", "j", "p", "g">>) \/ known(<<"m", "j", "p", "e", "g">>))
                => codec.out = [fourcc |-> "MJPG", warned |-> FALSE]
           /\ known(<<"x", "v", "i", "d">>) => codec.out = [fourcc |-> "XVID", warned |-> FALSE]
           /\ known(<<"m", "p", "4", "v">>) => codec.out = [fourcc |-> "MP4V", warned |-> FALSE]
           /\ (known(<<"h", "2", "6", "4">>) /\ EqIgnoreCase(f, <<"a", "v", "i">>))
                => codec.out = [fourcc |-> "H264", warned |-> FALSE]
           /\ (known(<<"h", "2", "6", "4">>) /\ EqIgnoreCase(f, <<"m", "p", "4">>))
                => codec.out = [fourcc |-> "avc1", warned |-> FALSE]
           /\ (\/ (/\ known(<<"h", "2", "6", "4">>)
                   /\ ~EqIgnoreCase(f, <<"a", "v", "i">>)
                   /\ ~EqIgnoreCase(f, <<"m", "p", "4">>))
               \/ (/\ ~known(<<"m", "j", "p", "g">>)
                   /\ ~known(<<"m", "j", "p", "e", "g">>)
                   /\ ~known(<<"x", "v", "i", "d">>)
                   /\ ~known(<<"m", "p", "4", "v">>)
                   /\ ~known(<<"h", "2", "6", "4">>)))
                => codec.out = [fourcc |-> "MJPG", warned |-> TRUE]

\* C29 witness: H264 in an MP4 container, written in mixed case, was mapped.
C29_Witness ==
    /\ codec.pc = "chosen"
    /\ codec.video_codec = <<"H", "2", "6", "4">>
    /\ codec.video_format = <<"M", "p", "4">>
    /\ codec.out.fourcc = "avc1"

\* C30: for each of the four timestamp formats the time query succeeds on a
\* 2xx response whose body consists solely of a timestamp in that format.
C30_FourFormatsParse ==
    (/\ stamp.pc = "returned"
     /\ is_success(stamp.status)
     /\ stamp.body \in {FormatPlain, FormatIsoZ, FormatIsoOffset, FormatPlainOffset})
        => stamp.out = "Ok"

\* C31: every batch terminates: once the workers of a batch are spawned, the
\* coordinator's join eventually returns, for every number of surviving
\* devices, also when it exceeds the number of threads that run async tasks.
C31_BatchTerminates ==
    (pc = "cli_join") ~> (pc = "op_returned")

\* C32: every visualization event emitted for an artifact is tagged with the
\* name of the device that produced the artifact, also when some devices of
\* the batch failed and produced none.
C32_EventsTaggedWithDevice ==
    \A k \in DOMAIN viz.log :
        viz.log[k].kind = "log" => viz.log[k].name = viz.log[k].path.name

\* C33: a successfully queried device is reported out of sync with the host
\* if and only if the absolute drift between its time and the host time, which
\* may carry a part of a second, exceeds the tolerance (drifts in half seconds).
C33_OutOfSyncIffDriftExceeds ==
    (sync_report.done /\ sync_report.analysed) =>
        \A k \in DOMAIN sync_report.samples :
            sync_report.system[k]
                <=> diff_seconds(2 * sync_report.samples[k].time, sync_report.host)
                        > 2 * sync_report.tolerance

\* C34: a stream handle is created at most once per device name: a call that
\* finds a handle for its name returns that handle and creates nothing, an open
\* is attempted only for a name without a handle, a successful open stores
\* exactly the handle of its name, and a failed open stores nothing.
C34_HandleCreatedOncePerName ==
    [][\A i \in DOMAIN init_results \cap DOMAIN init_results' :
         LET name == cameras_info[i] IN
         /\ (init_results[i] = "pending" /\ init_results'[i] = "ok")
               => (name \in captures /\ captures' = captures)
         /\ (init_results[i] = "pending" /\ init_results'[i] = "opening")
               => (name \notin captures /\ captures' = captures)
         /\ (init_results[i] = "opening" /\ init_results'[i] = "ok")
               => (name \notin captures /\ captures' = captures \cup {name})
         /\ (init_results[i] = "opening" /\ init_results'[i] = "err")
               => captures' = captures]_vars

\* After a failed open of a name, a later call for the same name is opening
\* the stream again.
C34_Witness ==
    \E i, j \in DOMAIN init_results :
        /\ i < j
        /\ cameras_info[i] = cameras_info[j]
        /\ init_results[i] = "err"
        /\ init_results[j] = "opening"

\* C35: the time query sends at most two requests per device: a second one is
\* sent only after a first response of 401 and then exactly once; every other
\* first response decides the outcome with one request, a missing password
\* with none.
C35_AtMostOneRetryOn401 ==
    /\ stamp.requests <= 2
    /\ stamp.requests = 2 => stamp.first = 401
    /\ stamp.first = 401 => stamp.requests = 2
    /\ (stamp.pc = "returned" /\ stamp.first \notin {0, 401}) => stamp.requests = 1

\* The query returned a time from the answer to its second request.
C35_Witness ==
    /\ stamp.pc = "returned"
    /\ stamp.requests = 2
    /\ stamp.first = 401
    /\ stamp.out = "Ok"

\* C36: a successful depth snapshot carries a colour frame or a depth frame;
\* with both streams disabled the snapshot fails and the pipeline was never
\* started; with no frame from any enabled stream the snapshot fails.
C36_SuccessCarriesAFrame ==
    /\ rs.res = "Ok" => (rs.color \/ rs.depth)
    /\ (rs.pc \in {"closure_done", "returned"} /\ ~rs.color /\ ~rs.depth)
          => rs.res # "Ok"
    /\ (~rs.color_on /\ ~rs.depth_on)
          => /\ rs.pipeline = RsIdle.pipeline
             /\ rs.pc \in {"start", "configure", "closure_done", "returned"}
             /\ rs.res # "Ok"

\* Both streams were enabled, the frameset held no colour frame, and the
\* snapshot returned Ok with the depth frame alone.
C36_Witness ==
    /\ rs.pc = "returned"
    /\ rs.res = "Ok"
    /\ rs.color_on /\ rs.depth_on
    /\ ~rs.color /\ rs.depth

\* The worker holds the guard of its stream handle.
HoldsLease(w) == w.pc \in {"reading", "got_frame", "setup", "loop"}

\* One of the blocking workers of the media manager, or its join, can step.
BlockingBatchStep ==
    \/ MmJoin
    \/ \E i \in DOMAIN workers :
         \/ BlockingBarrierWait(i)
         \/ LockCapture(i)
         \/ ImageRead(i)
         \/ ImageWrite(i)
         \/ RecordSetup(i)
         \/ RecordFrame(i)
         \/ RecordFinish(i)

\* C37: in a batch of the media manager no worker that has not yet passed the
\* shutter barrier holds the lock of a stream handle, two workers on the same
\* handle never hold it together, and the batch is never stuck: until the join
\* has returned some worker or the join can take a step.
C37_NoLeaseAtBarrier ==
    pc = "mm_join" =>
        /\ \A i \in DOMAIN workers :
             ~PastBarrier(workers[i]) => \A d \in Devices : capLock[d] # i
        /\ \A i, j \in DOMAIN workers :
             (i # j /\ workers[i].dev = workers[j].dev)
                => ~(HoldsLease(workers[i]) /\ HoldsLease(workers[j]))
        /\ ENABLED BlockingBatchStep

\* Two workers on the same stream handle, one using it while the other has
\* passed the barrier and waits for the lock.
C37_Witness ==
    /\ pc = "mm_join"
    /\ \E i, j \in DOMAIN workers :
         /\ i # j
         /\ workers[i].dev = workers[j].dev
         /\ HoldsLease(workers[i])
         /\ workers[j].pc = "passed"

\* C38: in a record worker every iteration of the loop takes one of the
\* num_frames slots, whether it wrote a frame, failed to read or read an empty
\* frame: the frames written and the iterations skipped add up to the slots
\* used, which never exceed num_frames, and when the worker is about to return
\* Ok they add up to num_frames.
C38_EveryIterationConsumesASlot ==
    \A i \in DOMAIN workers :
        (IsRecord /\ workers[i].pc = "loop") =>
            /\ workers[i].idx <= num_frames
            /\ workers[i].written + workers[i].skipped = workers[i].idx
            /\ (ENABLED RecordFinish(i))
                  => workers[i].written + workers[i].skipped = num_frames

\* A worker about to return Ok whose slots went partly to written frames and
\* partly to failed or empty reads.
C38_Witness ==
    \E i \in DOMAIN workers :
        /\ ENABLED RecordFinish(i)
        /\ workers[i].written > 0
        /\ workers[i].skipped > 0
        /\ workers[i].written + workers[i].skipped = num_frames

\* C39: for every IP camera the diagnostic suite attempts an image capture and
\* a video record on that camera (the camera is in the list given to the media
\* manager), and each of the two tests passes exactly when the call produced
\* an artifact file.
C39_DiagnosticTestsEachCamera ==
    (cmd = "test" /\ pc \in {"op_returned", "exited"}) =>
        \A k \in DOMAIN diag.results :
            LET r == diag.results[k] IN
            (r.test \in {"capture_image", "record_video"} /\ ~r.skipped) =>
                \E c \in DOMAIN diag.calls :
                    /\ diag.calls[c].op = r.test
                    /\ diag.calls[c].name = r.name
                    /\ r.name \in Range(diag.calls[c].cameras_info)
                    /\ r.success <=> diag.calls[c].paths # <<>>

====
